---- MODULE Spec2Model ----
(***************************************************************************)
(* A model of the RBAC memory system: the access-control policy engine     *)
(* (rbac/rbac_controller.py), the three tier controllers                   *)
(* (memory/short_term_controller.py, mid_term_controller.py,               *)
(* long_term_controller.py) and the cross-tier orchestrator                *)
(* (memory/unified_controller.py).                                         *)
(*                                                                         *)
(* The PostgreSQL tables are modelled as sequences of rows in insertion    *)
(* order (created_at ascending); a Python dict is a function whose DOMAIN  *)
(* is the set of keys present; Python None and SQL NULL are the value NULL.*)
(***************************************************************************)
EXTENDS Integers, Sequences, FiniteSets, TLC

VARIABLES
    rbac_session_memory,    \* rows of table rbac_session_memory (short_term)
    rbac_mid_term_memory,   \* rows of table rbac_mid_term_memory (mid_term)
    rbac_long_term_memory,  \* rows of table rbac_long_term_memory (long_term)
    last                    \* the last call made and what it returned or raised

vars == <<rbac_session_memory, rbac_mid_term_memory, rbac_long_term_memory, last>>

NULL == "NULL"

Range(s) == {s[i] : i \in DOMAIN s}

\* dict.get(key, default)
Get(d, k, default) == IF k \in DOMAIN d THEN d[k] ELSE default

\* the empty dict {}
EmptyDict == [k \in {} |-> NULL]

(***************************************************************************)
(* models/base_models.py                                                   *)
(***************************************************************************)
memory_tier_type == {"short_term", "long_term", "mid_term"}

access_scope_type == {"own", "project", "department", "organization", "session"}

(***************************************************************************)
(* rbac/rbac_controller.py                                                 *)
(***************************************************************************)
\* access_matrix with the employee's long_term scope widened to department
access_matrix_wide_employee ==
    (1 :> [short_term |-> "organization", long_term |-> "organization", mid_term |-> "organization"]) @@
    (2 :> [short_term |-> "department", long_term |-> "department", mid_term |-> "department"]) @@
    (3 :> [short_term |-> "project", long_term |-> "project", mid_term |-> "project"]) @@
    (4 :> [short_term |-> "project", long_term |-> "department", mid_term |-> "project"]) @@
    (5 :> [short_term |-> "own", long_term |-> NULL, mid_term |-> NULL])

\* RBACController.access_matrix; NULL is the None of a tier without access.
access_matrix ==
    (1 :> [short_term |-> "organization", long_term |-> "organization", mid_term |-> "organization"]) @@
    (2 :> [short_term |-> "department", long_term |-> "department", mid_term |-> "department"]) @@
    (3 :> [short_term |-> "project", long_term |-> "project", mid_term |-> "project"]) @@
    (4 :> [short_term |-> "project", long_term |-> "own", mid_term |-> "project"]) @@
    (5 :> [short_term |-> "own", long_term |-> NULL, mid_term |-> NULL])

\* RBACController._build_access_filters: the if/elif chain has no branch for
\* the scope session, which leaves the filters empty.
_build_access_filters(user_context, access_scope) ==
    CASE access_scope = "own" -> [user_id |-> user_context.user_id]
      [] access_scope = "project" -> [project_id__in |-> user_context.project_ids]
      [] access_scope = "department" -> [department_id |-> user_context.department_id]
      [] OTHER -> EmptyDict

\* check_memory_access without the `if allowed_scope is None` branch
check_memory_access_no_none_check(user_context, memory_tier, action) ==
    IF ~user_context.wellformed
    THEN [granted |-> FALSE, reason |-> "Access check failed", filters |-> EmptyDict]
    ELSE IF user_context.hierarchy_level \notin DOMAIN access_matrix
    THEN [granted |-> FALSE, reason |-> "User level not found in access matrix",
          filter |-> EmptyDict]
    ELSE LET allowed_scope == access_matrix[user_context.hierarchy_level][memory_tier]
         IN [granted |-> TRUE, reason |-> "Access granted with scope",
             scope |-> allowed_scope,
             filters |-> _build_access_filters(user_context, allowed_scope)]

\* RBACController.check_memory_access. The returned dict is a function over
\* the keys the code puts in it.  A principal that is not wellformed makes the
\* attribute access of the try body raise, which the except clause turns
\* into a denial.
check_memory_access(user_context, memory_tier, action) ==
    IF ~user_context.wellformed
    THEN [granted |-> FALSE, reason |-> "Access check failed", filters |-> EmptyDict]
    ELSE IF user_context.hierarchy_level \notin DOMAIN access_matrix
    THEN [granted |-> FALSE, reason |-> "User level not found in access matrix",
          filter |-> EmptyDict]
    ELSE LET allowed_scope == access_matrix[user_context.hierarchy_level][memory_tier]
         IN IF allowed_scope = NULL
            THEN [granted |-> FALSE, reason |-> "No access for hierarchy level",
                  filters |-> EmptyDict]
            ELSE [granted |-> TRUE, reason |-> "Access granted with scope",
                  scope |-> allowed_scope,
                  filters |-> _build_access_filters(user_context, allowed_scope)]

(***************************************************************************)
(* Python values.  A str is a sequence of words (a word with its           *)
(* length in characters from WordLen), " " is a run of whitespace; a       *)
(* list is a sequence of items.  Both are tagged, as isinstance tells them *)
(* apart.                                                                  *)
(***************************************************************************)
PyStr(words) == [type |-> "str", val |-> words]

PyList(items) == [type |-> "list", val |-> items]

\* `not v` is the negation of this: an empty str and an empty list are falsy
Truthy(v) == v.val # <<>>

\* len(word) of the words the model uses
WordLen(w) ==
    CASE w = "hi" -> 2
      [] w = " " -> 1
      [] w = "alpha" -> 5
      [] w = "session" -> 7
      [] w = "Session" -> 7
      [] w = "summary:" -> 8
      [] w = "..." -> 3
      [] w = "quarterly-notes" -> 15
      [] w = "release-checklist" -> 17
      [] w \in {"meeting", "Meeting", "summary"} -> 7
      [] w \in {"notes", "guide"} -> 5
      [] w = "guidelines" -> 10
      [] w = "word" -> 4
      [] w = "key" -> 3
      [] OTHER -> 6

\* str.lower() of one word
LowerWord(w) ==
    CASE w = "Session" -> "session"
      [] w = "Meeting" -> "meeting"
      [] OTHER -> w

\* str.lower()
Lower(words) == [i \in DOMAIN words |-> LowerWord(words[i])]

RECURSIVE SumLen(_)
SumLen(words) == IF words = <<>> THEN 0 ELSE WordLen(Head(words)) + SumLen(Tail(words))

\* len(s): the words' characters and one separator between two words
StrLen(words) == IF words = <<>> THEN 0 ELSE SumLen(words) + Len(words) - 1

RECURSIVE LStrip(_)
LStrip(words) ==
    IF words # <<>> /\ Head(words) = " " THEN LStrip(Tail(words)) ELSE words

RECURSIVE RStrip(_)
RStrip(words) ==
    IF words # <<>> /\ words[Len(words)] = " "
    THEN RStrip(SubSeq(words, 1, Len(words) - 1)) ELSE words

\* str.strip()
Strip(words) == RStrip(LStrip(words))

\* str.split(): the words that are not whitespace
Split(words) == SelectSeq(words, LAMBDA w : w # " ")

\* `needle in haystack` for strs: no word of the model is part of another,
\* so a substring is a run of whole words; the empty str is in every str
IsSubstring(needle, haystack) ==
    \E i \in 0..Len(haystack) :
        /\ i + Len(needle) <= Len(haystack)
        /\ \A j \in 1..Len(needle) : haystack[i + j] = needle[j]

\* ' '.join(list of strs)
RECURSIVE Join(_)
Join(strs) ==
    IF strs = <<>> THEN <<>>
    ELSE IF Len(strs) = 1 THEN Head(strs)
    ELSE Head(strs) \o Join(Tail(strs))

\* seq[:n] for n >= 0
Take(seq, n) == SubSeq(seq, 1, IF n < Len(seq) THEN n ELSE Len(seq))

Reverse(seq) == [i \in 1..Len(seq) |-> seq[Len(seq) + 1 - i]]

(***************************************************************************)
(* The database.  db is the record of the three tables; `down` is the set  *)
(* of tiers whose table raises on any query during the call (a store that  *)
(* is unavailable).  Every controller method is an operator from           *)
(* the database to an Outcome: the HTTP status (200, or the status of the  *)
(* HTTPException raised), the value returned (or the exception's detail),  *)
(* the database left behind and the trace of its authorization decisions   *)
(* and queries, in order.                                                  *)
(***************************************************************************)
Outcome(status, body, db, trace) ==
    [status |-> status, body |-> body, db |-> db, trace |-> trace]

\* check_memory_access was called for the tier and returned this decision
RbacEvent(memory_tier, access_result) == <<"rbac", memory_tier, access_result.granted>>

\* a query was sent to the tier's table
DbEvent(memory_tier) == <<"db", memory_tier, TRUE>>

\* RbacWhere without the department condition
RbacWhere_no_department(filters, owner, row) ==
    /\ "user_id" \in DOMAIN filters => owner = filters.user_id
    /\ "project_id__in" \in DOMAIN filters =>
          /\ row.project_id # NULL
          /\ row.project_id \in Range(filters.project_id__in)

\* RbacWhere adding the project condition only for a non-empty list
\* (`if filters.get('project_id__in'):` for `if 'project_id__in' in filters:`)
RbacWhere_truthy_projects(filters, owner, row) ==
    /\ "user_id" \in DOMAIN filters => owner = filters.user_id
    /\ ("project_id__in" \in DOMAIN filters /\ filters.project_id__in # <<>>) =>
          /\ row.project_id # NULL
          /\ row.project_id \in Range(filters.project_id__in)
    /\ "department_id" \in DOMAIN filters =>
          /\ row.department_id # NULL
          /\ filters.department_id # NULL
          /\ row.department_id = filters.department_id

\* The WHERE conditions every controller builds from the RBAC filters; a
\* comparison with NULL is not true in SQL, and = ANY of an empty array is false.
RbacWhere(filters, owner, row) ==
    /\ "user_id" \in DOMAIN filters => owner = filters.user_id
    /\ "project_id__in" \in DOMAIN filters =>
          /\ row.project_id # NULL
          /\ row.project_id \in Range(filters.project_id__in)
    /\ "department_id" \in DOMAIN filters =>
          /\ row.department_id # NULL
          /\ filters.department_id # NULL
          /\ row.department_id = filters.department_id

\* project_ids[0] if project_ids else None
FirstProject(user_context) ==
    IF user_context.project_ids # <<>> THEN user_context.project_ids[1] ELSE NULL

(***************************************************************************)
(* memory/short_term_controller.py                                         *)
(***************************************************************************)
\* ShortTermController.store_session_memory
store_session_memory(db, down, user_context, session_data) ==
    LET access_result == check_memory_access(user_context, "short_term", "write")
        t1 == <<RbacEvent("short_term", access_result)>>
        messages == Get(session_data, "messages", PyList(<<>>))
        session_id == Len(db.short_term) + 1
        row == [session_id |-> session_id,
                user_id |-> user_context.user_id,
                messages |-> messages,
                project_id |-> FirstProject(user_context),
                department_id |-> user_context.department_id,
                created_at |-> db.now]
    IN  IF ~access_result.granted
        THEN Outcome(403, access_result.reason, db, t1)
        ELSE IF ~Truthy(messages)
        THEN Outcome(400, "No messages provided", db, t1)
        ELSE IF "short_term" \in down
        THEN Outcome(500, "Failed to store memory session", db,
                     t1 \o <<DbEvent("short_term")>>)
        ELSE Outcome(200, [session_id |-> session_id, status |-> "success"],
                     [db EXCEPT !.short_term = Append(@, row)],
                     t1 \o <<DbEvent("short_term")>>)

\* ShortTermController.retrieve_sessions: ORDER BY created_at DESC LIMIT limit
retrieve_sessions(db, down, user_context, limit) ==
    LET access_result == check_memory_access(user_context, "short_term", "read")
        t1 == <<RbacEvent("short_term", access_result)>>
        sessions ==
            Take(Reverse(SelectSeq(db.short_term,
                    LAMBDA row : RbacWhere(access_result.filters, row.user_id, row))),
                 limit)
    IN  IF ~access_result.granted
        THEN Outcome(403, access_result.reason, db, t1)
        ELSE IF "short_term" \in down
        THEN Outcome(500, "Failed to retrieve memory sessions", db,
                     t1 \o <<DbEvent("short_term")>>)
        ELSE Outcome(200, sessions, db, t1 \o <<DbEvent("short_term")>>)

(***************************************************************************)
(* memory/mid_term_controller.py                                           *)
(***************************************************************************)
\* store_summary without `if not access_result["granted"]: raise`
store_summary_unchecked(db, down, user_context, summary_data) ==
    LET access_result == check_memory_access(user_context, "mid_term", "write")
        t1 == <<RbacEvent("mid_term", access_result)>>
        summary_text == Get(summary_data, "summary_text", PyStr(<<>>))
        summary_id == Len(db.mid_term) + 1
        row == [summary_id |-> summary_id,
                user_id |-> user_context.user_id,
                summary_text |-> summary_text.val,
                tags |-> Get(summary_data, "tags", <<>>),
                project_id |-> FirstProject(user_context),
                department_id |-> user_context.department_id,
                created_at |-> db.now]
    IN  IF ~Truthy(summary_text)
        THEN Outcome(400, "No summary text provided", db, t1)
        ELSE IF "mid_term" \in down \/ summary_text.type # "str"
        THEN Outcome(500, "Failed to store summary", db, t1 \o <<DbEvent("mid_term")>>)
        ELSE Outcome(200, [summary_id |-> summary_id, status |-> "success"],
                     [db EXCEPT !.mid_term = Append(@, row)],
                     t1 \o <<DbEvent("mid_term")>>)

\* MidTermController.store_summary
store_summary(db, down, user_context, summary_data) ==
    LET access_result == check_memory_access(user_context, "mid_term", "write")
        t1 == <<RbacEvent("mid_term", access_result)>>
        summary_text == Get(summary_data, "summary_text", PyStr(<<>>))
        summary_id == Len(db.mid_term) + 1
        row == [summary_id |-> summary_id,
                user_id |-> user_context.user_id,
                summary_text |-> summary_text.val,
                tags |-> Get(summary_data, "tags", <<>>),
                project_id |-> FirstProject(user_context),
                department_id |-> user_context.department_id,
                created_at |-> db.now]
    IN  IF ~access_result.granted
        THEN Outcome(403, access_result.reason, db, t1)
        ELSE IF ~Truthy(summary_text)
        THEN Outcome(400, "No summary text provided", db, t1)
        ELSE IF "mid_term" \in down \/ summary_text.type # "str"  \* not a value of a text column
        THEN Outcome(500, "Failed to store summary", db, t1 \o <<DbEvent("mid_term")>>)
        ELSE Outcome(200, [summary_id |-> summary_id, status |-> "success"],
                     [db EXCEPT !.mid_term = Append(@, row)],
                     t1 \o <<DbEvent("mid_term")>>)

\* MidTermController.retrieve_summaries: of the user filters only tags,
\* date_from and date_to reach the WHERE clause (any other key, such as
\* content_search, is ignored); ORDER BY timestamp DESC LIMIT limit
retrieve_summaries(db, down, user_context, filters, limit) ==
    LET access_result == check_memory_access(user_context, "mid_term", "read")
        t1 == <<RbacEvent("mid_term", access_result)>>
        user_filters == filters    \* filters or {}: the callers' None is EmptyDict here
        Where(row) ==
            /\ RbacWhere(access_result.filters, row.user_id, row)
            /\ "tags" \in DOMAIN user_filters =>
                  Range(row.tags) \cap Range(user_filters.tags) # {}
            /\ "date_from" \in DOMAIN user_filters => row.created_at >= user_filters.date_from
            /\ "date_to" \in DOMAIN user_filters => row.created_at <= user_filters.date_to
        summaries == Take(Reverse(SelectSeq(db.mid_term, Where)), limit)
    IN  IF ~access_result.granted
        THEN Outcome(403, access_result.reason, db, t1)
        ELSE IF "mid_term" \in down
        THEN Outcome(500, "Failed to retrieve summaries", db, t1 \o <<DbEvent("mid_term")>>)
        ELSE Outcome(200, summaries, db, t1 \o <<DbEvent("mid_term")>>)

\* MidTermController.search_by_tags
search_by_tags(db, down, user_context, tags, limit) ==
    retrieve_summaries(db, down, user_context, [tags |-> tags], limit)

(***************************************************************************)
(* memory/long_term_controller.py                                          *)
(***************************************************************************)
\* sorted(seq, key=lambda x: x[key], reverse=True) and list.sort of the same:
\* descending by the key, elements of equal key in their original order
RECURSIVE SortedDesc(_, _)
SortedDesc(seq, key) ==
    IF seq = <<>> THEN <<>>
    ELSE LET rest == SortedDesc(SubSeq(seq, 1, Len(seq) - 1), key)
             x == seq[Len(seq)]
             \* x, the last of the input, goes after every element of key >= its own
             n == Cardinality({i \in DOMAIN rest : rest[i][key] >= x[key]})
         IN SubSeq(rest, 1, n) \o <<x>> \o SubSeq(rest, n + 1, Len(rest))

\* LongTermController._generate_content_hash: equal for equal content only
_generate_content_hash(content) == content

\* LongTermController._generate_embedding: a vector computed from hashes of
\* text.lower().strip(), here that normalised text itself
_generate_embedding(text) == Lower(Strip(text))

\* LongTermController._calculate_similarity, in hundredths: the cosine of a
\* vector with itself is 1; the vectors of two different texts are
\* 1536 unrelated hash bytes each, with a cosine near 0
_calculate_similarity(embedding1, embedding2) ==
    IF embedding1 = embedding2 THEN 100 ELSE 0

\* VisibleDocuments without `AND is_archived = FALSE`
VisibleDocuments_with_archived(db, rbac_filters) ==
    SelectSeq(db.long_term, LAMBDA row : RbacWhere(rbac_filters, row.created_by, row))

\* The rows of rbac_long_term_memory the principal's filters select, archived
\* rows left out (... AND is_archived = FALSE)
VisibleDocuments(db, rbac_filters) ==
    SelectSeq(db.long_term,
              LAMBDA row : RbacWhere(rbac_filters, row.created_by, row) /\ ~row.is_archived)

\* LongTermController.store_document
store_document(db, down, user_context, document_data) ==
    LET access_result == check_memory_access(user_context, "long_term", "write")
        t1 == <<RbacEvent("long_term", access_result)>>
        raw == Get(document_data, "content", PyStr(<<>>))
        content == Strip(raw.val)
        content_hash == _generate_content_hash(content)
        existing == SelectSeq(db.long_term,
                              LAMBDA row : _generate_content_hash(row.content) = content_hash)
        memory_id == Len(db.long_term) + 1
        row == [memory_id |-> memory_id,
                created_by |-> user_context.user_id,
                title |-> Get(document_data, "title", PyStr(content)).val,
                content |-> content,
                embedding |-> _generate_embedding(content),
                word_count |-> Len(Split(content)),
                project_id |-> FirstProject(user_context),
                department_id |-> user_context.department_id,
                version |-> 1,
                is_archived |-> FALSE,
                created_at |-> db.now]
    IN  IF ~access_result.granted
        THEN Outcome(403, access_result.reason, db, t1)
        ELSE IF raw.type # "str"     \* .strip() of a list raises AttributeError
        THEN Outcome(500, "Failed to store document", db, t1)
        ELSE IF content = <<>>
        THEN Outcome(400, "Document content is required", db, t1)
        ELSE IF StrLen(content) < 10
        THEN Outcome(400, "Document content too short (minimum 10 characters)", db, t1)
        ELSE IF "long_term" \in down
        THEN Outcome(500, "Failed to store document", db, t1 \o <<DbEvent("long_term")>>)
        ELSE IF existing # <<>>
        THEN Outcome(200, [memory_id |-> existing[1].memory_id, status |-> "duplicate"],
                     db, t1 \o <<DbEvent("long_term")>>)
        ELSE Outcome(200, [memory_id |-> memory_id, status |-> "success"],
                     [db EXCEPT !.long_term = Append(@, row)],
                     t1 \o <<DbEvent("long_term"), DbEvent("long_term")>>)

\* LongTermController.retrieve_documents: of the user filters the model's
\* callers pass only date_from; ORDER BY created_at DESC LIMIT limit
retrieve_documents(db, down, user_context, filters, limit) ==
    LET access_result == check_memory_access(user_context, "long_term", "read")
        t1 == <<RbacEvent("long_term", access_result)>>
        user_filters == filters    \* filters or {}: the callers' None is EmptyDict here
        documents ==
            Take(Reverse(SelectSeq(VisibleDocuments(db, access_result.filters),
                    LAMBDA row : "date_from" \in DOMAIN user_filters =>
                                     row.created_at >= user_filters.date_from)),
                 limit)
    IN  IF ~access_result.granted
        THEN Outcome(403, access_result.reason, db, t1)
        ELSE IF "long_term" \in down
        THEN Outcome(500, "Failed to retrieve documents", db, t1 \o <<DbEvent("long_term")>>)
        ELSE Outcome(200, documents, db, t1 \o <<DbEvent("long_term")>>)

\* LongTermController.semantic_search: the newest 200 visible documents,
\* each with its similarity to the query, sorted by similarity, cut to limit
semantic_search(db, down, user_context, query, limit) ==
    LET access_result == check_memory_access(user_context, "long_term", "read")
        t1 == <<RbacEvent("long_term", access_result)>>
        query_embedding == _generate_embedding(query)
        documents == Take(Reverse(VisibleDocuments(db, access_result.filters)), 200)
        ranked_results ==
            [i \in DOMAIN documents |->
                [memory_id |-> documents[i].memory_id,
                 title |-> documents[i].title,
                 content |-> documents[i].content,
                 created_at |-> documents[i].created_at,
                 word_count |-> documents[i].word_count,
                 similarity_score |->
                     _calculate_similarity(query_embedding, documents[i].embedding)]]
    IN  IF ~access_result.granted
        THEN Outcome(403, access_result.reason, db, t1)
        ELSE IF "long_term" \in down
        THEN Outcome(500, "Failed to perform semantic search", db,
                     t1 \o <<DbEvent("long_term")>>)
        ELSE Outcome(200,
                     Take(SortedDesc(ranked_results, "similarity_score"), limit),
                     db, t1 \o <<DbEvent("long_term")>>)

\* LongTermController.get_document_by_id
get_document_by_id(db, down, user_context, memory_id) ==
    LET access_result == check_memory_access(user_context, "long_term", "read")
        t1 == <<RbacEvent("long_term", access_result)>>
        document == SelectSeq(VisibleDocuments(db, access_result.filters),
                              LAMBDA row : row.memory_id = memory_id)
    IN  IF ~access_result.granted
        THEN Outcome(403, access_result.reason, db, t1)
        ELSE IF "long_term" \in down
        THEN Outcome(500, "Failed to retrieve document", db, t1 \o <<DbEvent("long_term")>>)
        ELSE IF document = <<>>
        THEN Outcome(404, "Document not found or access denied", db,
                     t1 \o <<DbEvent("long_term")>>)
        ELSE Outcome(200, document[1], db, t1 \o <<DbEvent("long_term")>>)

\* update_document without step 3, the check of the creator
update_document_any_writer(db, down, user_context, memory_id, updates) ==
    LET access_result == check_memory_access(user_context, "long_term", "write")
        t1 == <<RbacEvent("long_term", access_result)>>
        got == get_document_by_id(db, down, user_context, memory_id)
        existing_doc == got.body
        t2 == t1 \o got.trace
        new_content == Get(updates, "content", PyStr(existing_doc.content)).val
        new_title == Get(updates, "title", PyStr(existing_doc.title)).val
        updated ==
            IF new_content # existing_doc.content
            THEN [existing_doc EXCEPT !.title = new_title,
                                      !.content = new_content,
                                      !.embedding = _generate_embedding(new_content),
                                      !.word_count = Len(Split(new_content)),
                                      !.version = @ + 1]
            ELSE [existing_doc EXCEPT !.title = new_title]
    IN  IF ~access_result.granted
        THEN Outcome(403, access_result.reason, db, t1)
        ELSE IF got.status # 200
        THEN Outcome(got.status, got.body, db, t2)
        ELSE Outcome(200,
                     [memory_id |-> memory_id, version |-> updated.version,
                      status |-> "success"],
                     [db EXCEPT !.long_term[memory_id] = updated],
                     t2 \o <<DbEvent("long_term")>>)

\* LongTermController.update_document: version = version + 1 is part of the
\* UPDATE only when the content changed (a new embedding was generated)
update_document(db, down, user_context, memory_id, updates) ==
    LET access_result == check_memory_access(user_context, "long_term", "write")
        t1 == <<RbacEvent("long_term", access_result)>>
        got == get_document_by_id(db, down, user_context, memory_id)
        existing_doc == got.body
        t2 == t1 \o got.trace
        new_content == Get(updates, "content", PyStr(existing_doc.content)).val
        new_title == Get(updates, "title", PyStr(existing_doc.title)).val
        updated ==
            IF new_content # existing_doc.content
            THEN [existing_doc EXCEPT !.title = new_title,
                                      !.content = new_content,
                                      !.embedding = _generate_embedding(new_content),
                                      !.word_count = Len(Split(new_content)),
                                      !.version = @ + 1]
            ELSE [existing_doc EXCEPT !.title = new_title]
    IN  IF ~access_result.granted
        THEN Outcome(403, access_result.reason, db, t1)
        ELSE IF got.status # 200
        THEN Outcome(got.status, got.body, db, t2)
        ELSE IF existing_doc.created_by # user_context.user_id
                /\ user_context.hierarchy_level > 2
        THEN Outcome(403, "Cannot modify documents created by others", db, t2)
        ELSE Outcome(200,
                     [memory_id |-> memory_id, version |-> updated.version,
                      status |-> "success"],
                     [db EXCEPT !.long_term[memory_id] = updated],
                     t2 \o <<DbEvent("long_term")>>)

\* LongTermController.delete_document: archives, never removes
delete_document(db, down, user_context, memory_id) ==
    LET access_result == check_memory_access(user_context, "long_term", "delete")
        t1 == <<RbacEvent("long_term", access_result)>>
        got == get_document_by_id(db, down, user_context, memory_id)
        existing_doc == got.body
        t2 == t1 \o got.trace
    IN  IF ~access_result.granted
        THEN Outcome(403, access_result.reason, db, t1)
        ELSE IF got.status # 200
        THEN Outcome(got.status, got.body, db, t2)
        ELSE IF existing_doc.created_by # user_context.user_id
                /\ user_context.hierarchy_level > 2
        THEN Outcome(403, "Cannot delete documents created by others", db, t2)
        ELSE Outcome(200, [memory_id |-> memory_id, status |-> "success"],
                     [db EXCEPT !.long_term[memory_id].is_archived = TRUE],
                     t2 \o <<DbEvent("long_term")>>)

(***************************************************************************)
(* memory/unified_controller.py                                            *)
(***************************************************************************)
\* The unified score is kept in units of 1/36500, in which every term of
\* the formula is a whole number: 0.4 * similarity (in hundredths) is
\* 146 per hundredth, 0.3 * (1 - days_old/365) is 30 per day short of 365,
\* and the bonuses 0.3, 0.2 and 0.1 are 10950, 7300 and 3650.
tier_bonus(memory_tier) ==
    CASE memory_tier = "long_term" -> 10950
      [] memory_tier = "mid_term" -> 7300
      [] OTHER -> 3650

\* max(0, 1 - (days_old / 365)) * 0.3
recency_score(days_old) == IF 365 - days_old > 0 THEN 30 * (365 - days_old) ELSE 0

\* the score the loop of _rank_cross_tier_results gives one result
unified_score(result, now) ==
    (IF "similarity_score" \in DOMAIN result THEN 146 * result.similarity_score ELSE 0)
    + (IF "created_at" \in DOMAIN result THEN recency_score(now - result.created_at) ELSE 0)
    + tier_bonus(Get(result, "memory_tier", "short_term"))
    + (IF Get(result, "word_count", 0) > 100 THEN 3650 ELSE 0)

\* result['unified_score'] = score adds a key to the dict
WithScore(result, now) ==
    [k \in DOMAIN result \cup {"unified_score"} |->
        IF k = "unified_score" THEN unified_score(result, now) ELSE result[k]]

\* _rank_cross_tier_results sorting without reverse=True
_rank_cross_tier_results_ascending(all_results, now) ==
    Reverse(SortedDesc([i \in DOMAIN all_results |-> WithScore(all_results[i], now)],
                       "unified_score"))

\* UnifiedMemoryController._rank_cross_tier_results
_rank_cross_tier_results(all_results, now) ==
    SortedDesc([i \in DOMAIN all_results |-> WithScore(all_results[i], now)],
               "unified_score")

\* the messages of a session row as the code reads them after json.loads:
\* the contents of the messages of a list, nothing of a str
MessageContents(messages) == IF messages.type = "list" THEN messages.val ELSE <<>>

\* UnifiedMemoryController._search_short_term: any exception, the
\* HTTPException of a denial included, ends in an empty list
_search_short_term(db, down, user_context, query, limit) ==
    LET got == retrieve_sessions(db, down, user_context, limit * 2)
        sessions == got.body
        content_text(session) == Join(MessageContents(session.messages))
        matching == SelectSeq(sessions,
                        LAMBDA session : IsSubstring(Lower(query), Lower(content_text(session))))
        matching_sessions ==
            [i \in DOMAIN matching |->
                [id |-> matching[i].session_id,
                 content |-> content_text(matching[i]),
                 created_at |-> matching[i].created_at,
                 similarity_score |-> 70]]
    IN  IF got.status # 200
        THEN [results |-> <<>>, trace |-> got.trace]
        ELSE [results |-> Take(matching_sessions, limit), trace |-> got.trace]

\* the elements of seq whose id no earlier element has, in order
RECURSIVE UniqueById(_, _)
UniqueById(seq, seen_ids) ==
    IF seq = <<>> THEN <<>>
    ELSE IF Head(seq).summary_id \in seen_ids
    THEN UniqueById(Tail(seq), seen_ids)
    ELSE <<Head(seq)>> \o UniqueById(Tail(seq), seen_ids \cup {Head(seq).summary_id})

\* UnifiedMemoryController._search_mid_term: retrieve_summaries ignores the
\* content_search filter, so content_results are the newest visible summaries
_search_mid_term(db, down, user_context, query, limit) ==
    LET got1 == retrieve_summaries(db, down, user_context, [content_search |-> query], limit)
        one_word == Len(Split(query)) = 1
        \* [query.lower()]: the whole query is the one tag searched for
        tag == IF Len(query) = 1 THEN LowerWord(query[1]) ELSE "(not a word)"
        got2 == search_by_tags(db, down, user_context, <<tag>>, limit)
        trace == IF got1.status = 200 /\ one_word THEN got1.trace \o got2.trace ELSE got1.trace
        tag_results == IF one_word THEN got2.body ELSE <<>>
        unique == UniqueById(got1.body \o tag_results, {})
        unique_results ==
            [i \in DOMAIN unique |->
                [id |-> unique[i].summary_id,
                 content |-> unique[i].summary_text,
                 tags |-> unique[i].tags,
                 created_at |-> unique[i].created_at,
                 similarity_score |-> 80]]
    IN  IF got1.status # 200 \/ (one_word /\ got2.status # 200)
        THEN [results |-> <<>>, trace |-> trace]
        ELSE [results |-> Take(unique_results, limit), trace |-> trace]

\* result['memory_tier'] = tier_name; result['search_query'] = query
Tagged(results, tier_name, query) ==
    [i \in DOMAIN results |->
        [k \in DOMAIN results[i] \cup {"memory_tier", "search_query"} |->
            CASE k = "memory_tier" -> tier_name
              [] k = "search_query" -> query
              [] OTHER -> results[i][k]]]

\* UnifiedMemoryController.universal_search: the three coroutines are awaited
\* one after the other in the loop; only semantic_search can raise into it
universal_search(db, down, user_context, query, limit) ==
    LET short == _search_short_term(db, down, user_context, query, limit \div 3)
        mid == _search_mid_term(db, down, user_context, query, limit \div 3)
        long == semantic_search(db, down, user_context, query, limit \div 3)
        all_results ==
            Tagged(short.results, "short_term", query)
            \o Tagged(mid.results, "mid_term", query)
            \o (IF long.status = 200 THEN Tagged(long.body, "long_term", query) ELSE <<>>)
        search_errors ==
            IF long.status = 200 THEN <<>>
            ELSE <<[tier_name |-> "long_term", status |-> long.status, detail |-> long.body]>>
        final_results == Take(_rank_cross_tier_results(all_results, db.now), limit)
    IN  IF ~user_context.wellformed  \* user_context.username raises in the log line
        THEN Outcome(500, "Universal search failed", db, <<>>)
        ELSE
        Outcome(200,
                [query |-> query,
                 total_results |-> Len(final_results),
                 results |-> final_results,
                 tiers_searched |-> <<"short_term", "mid_term", "long_term">>,
                 search_errors |-> search_errors,
                 result_breakdown |->
                     [tier \in {"short_term", "mid_term", "long_term"} |->
                         Cardinality({i \in DOMAIN final_results :
                                         final_results[i].memory_tier = tier})]],
                db, short.trace \o mid.trace \o long.trace)

\* migrate_memory as a move: the source record is deleted after the store
migrate_memory_moving(db, down, user_context, source_tier, target_tier, memory_id) ==
    LET got == IF source_tier = "short_term"
               THEN retrieve_sessions(db, down, user_context, 1000)
               ELSE retrieve_summaries(db, down, user_context, EmptyDict, 1000)
        found == IF source_tier = "short_term"
                 THEN SelectSeq(got.body, LAMBDA s : s.session_id = memory_id)
                 ELSE SelectSeq(got.body, LAMBDA s : s.summary_id = memory_id)
        source_item == found[1]
        migrated_content ==
            IF source_tier = "short_term"
            THEN [summary_text |->
                      PyStr(<<"Session", "summary:">>
                            \o Join(MessageContents(source_item.messages)) \o <<"...">>),
                  conversation_ids |-> <<memory_id>>,
                  tags |-> <<"migrated", "session">>]
            ELSE [title |-> PyStr(<<"Summary", "Document:">> \o source_item.summary_text
                                  \o <<"...">>),
                  content |-> PyStr(source_item.summary_text),
                  memory_type |-> "migrated_summary",
                  metadata |-> [original_tags |-> source_item.tags]]
        stored == IF target_tier = "mid_term"
                  THEN store_summary(db, down, user_context, migrated_content)
                  ELSE store_document(db, down, user_context, migrated_content)
    IN  IF source_tier \notin {"short_term", "mid_term"}
        THEN Outcome(400, "Migration from long-term not supported", db, <<>>)
        ELSE IF got.status # 200
        THEN Outcome(got.status, got.body, db, got.trace)
        ELSE IF found = <<>>
        THEN Outcome(404, "Source memory not found", db, got.trace)
        ELSE IF target_tier \notin {"mid_term", "long_term"}
        THEN Outcome(400, "Invalid target tier", db, got.trace)
        ELSE IF stored.status # 200
        THEN Outcome(stored.status, stored.body, db, got.trace \o stored.trace)
        ELSE Outcome(200,
                     [source_tier |-> source_tier,
                      target_tier |-> target_tier,
                      source_id |-> memory_id,
                      target_id |-> Get(stored.body, "memory_id",
                                        Get(stored.body, "summary_id", NULL)),
                      status |-> "success"],
                     IF source_tier = "short_term"
                     THEN [stored.db EXCEPT !.short_term =
                              SelectSeq(@, LAMBDA s : s.session_id # memory_id)]
                     ELSE [stored.db EXCEPT !.mid_term =
                              SelectSeq(@, LAMBDA s : s.summary_id # memory_id)],
                     got.trace \o stored.trace)

\* UnifiedMemoryController.migrate_memory.  The texts of the model are
\* shorter than the 500 and 50 characters the slices [:500] and [:50] keep.
migrate_memory(db, down, user_context, source_tier, target_tier, memory_id) ==
    LET got == IF source_tier = "short_term"
               THEN retrieve_sessions(db, down, user_context, 1000)
               ELSE retrieve_summaries(db, down, user_context, EmptyDict, 1000)
        found == IF source_tier = "short_term"
                 THEN SelectSeq(got.body, LAMBDA s : s.session_id = memory_id)
                 ELSE SelectSeq(got.body, LAMBDA s : s.summary_id = memory_id)
        source_item == found[1]
        migrated_content ==
            IF source_tier = "short_term"
            THEN [summary_text |->
                      PyStr(<<"Session", "summary:">>
                            \o Join(MessageContents(source_item.messages)) \o <<"...">>),
                  conversation_ids |-> <<memory_id>>,
                  tags |-> <<"migrated", "session">>]
            ELSE [title |-> PyStr(<<"Summary", "Document:">> \o source_item.summary_text
                                  \o <<"...">>),
                  content |-> PyStr(source_item.summary_text),
                  memory_type |-> "migrated_summary",
                  metadata |-> [original_tags |-> source_item.tags]]
        stored == IF target_tier = "mid_term"
                  THEN store_summary(db, down, user_context, migrated_content)
                  ELSE store_document(db, down, user_context, migrated_content)
    IN  IF source_tier \notin {"short_term", "mid_term"}
        THEN Outcome(400, "Migration from long-term not supported", db, <<>>)
        ELSE IF got.status # 200
        THEN Outcome(got.status, got.body, db, got.trace)
        ELSE IF found = <<>>
        THEN Outcome(404, "Source memory not found", db, got.trace)
        ELSE IF target_tier \notin {"mid_term", "long_term"}
        THEN Outcome(400, "Invalid target tier", db, got.trace)
        ELSE IF stored.status # 200
        THEN Outcome(stored.status, stored.body, db, got.trace \o stored.trace)
        ELSE Outcome(200,
                     [source_tier |-> source_tier,
                      target_tier |-> target_tier,
                      source_id |-> memory_id,
                      target_id |-> Get(stored.body, "memory_id",
                                        Get(stored.body, "summary_id", NULL)),
                      status |-> "success"],
                     stored.db, got.trace \o stored.trace)

\* a value that is neither a str nor a list (None, a number)
PyNone == [type |-> "NoneType", val |-> <<>>]

\* summary_indicators and document_indicators of _determine_memory_tier, each
\* a str of one or two words
summary_indicators ==
    { <<"summary">>, <<"decision">>, <<"meeting">>, <<"conclusion">>, <<"key", "points">> }

document_indicators ==
    { <<"policy">>, <<"procedure">>, <<"documentation">>, <<"guide">>, <<"manual">> }

\* `part in word` for one word: of the words the model uses, "summary:" holds
\* "summary" and "guidelines" holds "guide"
WordContains(part, word) ==
    \/ word = part
    \/ <<part, word>> \in { <<"summary", "summary:">>, <<"guide", "guidelines">> }

\* `indicator in text`: a one-word indicator is in the text when it is part
\* of one of its words, a two-word indicator when its words follow each other
\* with one space between them
HasIndicator(indicator, text) ==
    IF Len(indicator) = 1
    THEN \E i \in DOMAIN text : WordContains(indicator[1], text[i])
    ELSE IsSubstring(indicator, text)

\* _determine_memory_tier looking for document indicators before summary
\* indicators
_determine_memory_tier_documents_first(content) ==
    LET content_text ==
            Get(content, "content",
                Get(content, "summary_text", Get(content, "messages", PyStr(<<>>))))
        word_count == Len(Split(content_text.val))
        lowered == Lower(content_text.val)
    IN  IF "memory_tier" \in DOMAIN content THEN content.memory_tier
        ELSE IF content_text.type = "list" THEN "short_term"
        ELSE IF content_text.type = "str"
        THEN IF \E indicator \in document_indicators : HasIndicator(indicator, lowered)
             THEN "long_term"
             ELSE IF \E indicator \in summary_indicators : HasIndicator(indicator, lowered)
             THEN "mid_term"
             ELSE IF word_count < 50 THEN "short_term"
             ELSE IF word_count < 500 THEN "mid_term"
             ELSE "long_term"
        ELSE "short_term"

\* UnifiedMemoryController._determine_memory_tier
_determine_memory_tier(content) ==
    LET content_text ==
            Get(content, "content",
                Get(content, "summary_text", Get(content, "messages", PyStr(<<>>))))
        word_count == Len(Split(content_text.val))
        lowered == Lower(content_text.val)
    IN  IF "memory_tier" \in DOMAIN content THEN content.memory_tier
        ELSE IF content_text.type = "list" THEN "short_term"
        ELSE IF content_text.type = "str"
        THEN IF \E indicator \in summary_indicators : HasIndicator(indicator, lowered)
             THEN "mid_term"
             ELSE IF \E indicator \in document_indicators : HasIndicator(indicator, lowered)
             THEN "long_term"
             ELSE IF word_count < 50 THEN "short_term"
             ELSE IF word_count < 500 THEN "mid_term"
             ELSE "long_term"
        ELSE "short_term"

\* result['memory_tier'] = ...; result['tier_reason'] = ... on the dict a
\* store returned; an HTTPException of the store is raised again as it is
WithTier(out, memory_tier, tier_reason) ==
    IF out.status # 200 THEN out
    ELSE Outcome(200,
                 [k \in DOMAIN out.body \cup {"memory_tier", "tier_reason"} |->
                     CASE k = "memory_tier" -> memory_tier
                       [] k = "tier_reason" -> tier_reason
                       [] OTHER -> out.body[k]],
                 out.db, out.trace)

\* store_memory_intelligent storing content of an unknown tier as a session
store_memory_intelligent_lenient(db, down, user_context, content) ==
    LET recommended_tier == _determine_memory_tier(content)
    IN  IF ~user_context.wellformed
        THEN Outcome(500, "Failed to store memory intelligently", db, <<>>)
        ELSE IF recommended_tier = "mid_term"
        THEN WithTier(store_summary(db, down, user_context, content),
                      "mid_term", "Summary/insight data")
        ELSE IF recommended_tier = "long_term"
        THEN WithTier(store_document(db, down, user_context, content),
                      "long_term", "Document/knowledge data")
        ELSE WithTier(store_session_memory(db, down, user_context, content),
                      "short_term", "Conversation/session data")

\* UnifiedMemoryController.store_memory_intelligent
store_memory_intelligent(db, down, user_context, content) ==
    LET recommended_tier == _determine_memory_tier(content)
    IN  IF ~user_context.wellformed  \* user_context.username raises in the log line
        THEN Outcome(500, "Failed to store memory intelligently", db, <<>>)
        ELSE IF recommended_tier = "short_term"
        THEN WithTier(store_session_memory(db, down, user_context, content),
                      "short_term", "Conversation/session data")
        ELSE IF recommended_tier = "mid_term"
        THEN WithTier(store_summary(db, down, user_context, content),
                      "mid_term", "Summary/insight data")
        ELSE IF recommended_tier = "long_term"
        THEN WithTier(store_document(db, down, user_context, content),
                      "long_term", "Document/knowledge data")
        ELSE Outcome(400, "Invalid memory tier", db, <<>>)

RECURSIVE SumWordCount(_)
\* sum(word_count) over rows
SumWordCount(rows) ==
    IF rows = <<>> THEN 0 ELSE Head(rows).word_count + SumWordCount(Tail(rows))

\* LongTermController.get_memory_stats: a denial and an error are both
\* returned as a dict with accessible False, never raised. Of the aggregates
\* those over the columns kept here: COUNT(*), SUM(word_count),
\* COUNT(DISTINCT created_by)
get_memory_stats(db, down, user_context) ==
    LET access_result == check_memory_access(user_context, "long_term", "read")
        t1 == <<RbacEvent("long_term", access_result)>>
        rows == VisibleDocuments(db, access_result.filters)
    IN  IF ~access_result.granted
        THEN [stats |-> [total_documents |-> 0, accessible |-> FALSE], trace |-> t1]
        ELSE IF "long_term" \in down
        THEN [stats |-> [error |-> "Failed to retrieve statistics", accessible |-> FALSE],
              trace |-> t1 \o <<DbEvent("long_term")>>]
        ELSE [stats |-> [total_documents |-> Len(rows),
                         total_words |-> SumWordCount(rows),
                         contributors |-> Cardinality({rows[i].created_by : i \in DOMAIN rows}),
                         user_access_level |-> access_result.scope,
                         accessible |-> TRUE],
              trace |-> t1 \o <<DbEvent("long_term"), DbEvent("long_term")>>]

\* _get_short_term_stats with `except` reporting an empty, accessible tier
_get_short_term_stats_masking(db, down, user_context) ==
    LET got == retrieve_sessions(db, down, user_context, 1000)
        sessions == IF got.status = 200 THEN got.body ELSE <<>>
    IN  [stats |-> [total_sessions |-> Len(sessions),
                    accessible |-> TRUE,
                    most_recent |-> IF sessions # <<>> THEN sessions[1].created_at ELSE NULL],
         trace |-> got.trace]

\* UnifiedMemoryController._get_short_term_stats
_get_short_term_stats(db, down, user_context) ==
    LET got == retrieve_sessions(db, down, user_context, 1000)
        sessions == got.body
    IN  IF got.status = 200
        THEN [stats |-> [total_sessions |-> Len(sessions),
                         accessible |-> TRUE,
                         most_recent |-> IF sessions # <<>> THEN sessions[1].created_at
                                         ELSE NULL],
              trace |-> got.trace]
        ELSE [stats |-> [accessible |-> FALSE, error |-> got.body], trace |-> got.trace]

\* UnifiedMemoryController._get_mid_term_stats
_get_mid_term_stats(db, down, user_context) ==
    LET got == retrieve_summaries(db, down, user_context, EmptyDict, 1000)
        summaries == got.body
    IN  IF got.status = 200
        THEN [stats |-> [total_summaries |-> Len(summaries),
                         accessible |-> TRUE,
                         most_recent |-> IF summaries # <<>> THEN summaries[1].created_at
                                         ELSE NULL],
              trace |-> got.trace]
        ELSE [stats |-> [accessible |-> FALSE, error |-> got.body], trace |-> got.trace]

\* max(pairs, key=lambda x: x[1])[0]: the first pair of the list whose count
\* is maximal
FirstMax(pairs) ==
    pairs[CHOOSE i \in DOMAIN pairs :
            /\ \A j \in DOMAIN pairs : pairs[j][2] <= pairs[i][2]
            /\ \A j \in 1..(i - 1) : pairs[j][2] < pairs[i][2]][1]

\* UnifiedMemoryController._get_recent_activity: the three reads one after
\* the other; the first that raises ends it with {"error": ...}
_get_recent_activity(db, down, user_context) ==
    LET recent_date == db.now - 7
        recent_short == retrieve_sessions(db, down, user_context, 100)
        recent_mid == retrieve_summaries(db, down, user_context,
                                         [date_from |-> recent_date], 100)
        recent_long == retrieve_documents(db, down, user_context,
                                          [date_from |-> recent_date], 100)
    IN  IF recent_short.status # 200
        THEN [activity |-> [error |-> recent_short.body], trace |-> recent_short.trace]
        ELSE IF recent_mid.status # 200
        THEN [activity |-> [error |-> recent_mid.body],
              trace |-> recent_short.trace \o recent_mid.trace]
        ELSE IF recent_long.status # 200
        THEN [activity |-> [error |-> recent_long.body],
              trace |-> recent_short.trace \o recent_mid.trace \o recent_long.trace]
        ELSE [activity |->
                 [last_7_days |-> [short_term |-> Len(recent_short.body),
                                   mid_term |-> Len(recent_mid.body),
                                   long_term |-> Len(recent_long.body)],
                  most_active_tier |->
                      FirstMax(<< <<"short_term", Len(recent_short.body)>>,
                                  <<"mid_term", Len(recent_mid.body)>>,
                                  <<"long_term", Len(recent_long.body)>> >>)],
              trace |-> recent_short.trace \o recent_mid.trace \o recent_long.trace]

\* UnifiedMemoryController._get_user_access_scope
_get_user_access_scope(user_context) ==
    IF user_context.hierarchy_level <= 1 THEN "organization"
    ELSE IF user_context.hierarchy_level <= 2 THEN "department"
    ELSE IF user_context.hierarchy_level <= 3 THEN "project"
    ELSE "own"

\* UnifiedMemoryController._get_accessible_tiers
_get_accessible_tiers(user_context) ==
    <<"short_term">>
    \o (IF user_context.hierarchy_level <= 4 THEN <<"mid_term">> ELSE <<>>)
    \o (IF user_context.hierarchy_level <= 4 THEN <<"long_term">> ELSE <<>>)

\* UnifiedMemoryController._generate_recommendations; roles is the [] of
\* UserContext unless the principal carries some
_generate_recommendations(user_context, short_stats, mid_stats, long_stats) ==
    (IF Get(short_stats, "total_sessions", 0) > 50 /\ Get(mid_stats, "total_summaries", 0) < 5
     THEN <<"create summaries">> ELSE <<>>)
    \o (IF Get(long_stats, "total_documents", 0) = 0 /\ user_context.hierarchy_level <= 3
        THEN <<"store documents">> ELSE <<>>)
    \o (IF "Manager" \in Range(Get(user_context, "roles", <<>>))
        THEN <<"track team decisions">> ELSE <<>>)
    \o (IF user_context.hierarchy_level <= 2 THEN <<"store company policies">> ELSE <<>>)

\* UnifiedMemoryController.get_memory_overview: gather(return_exceptions=True)
\* joins the three statistics; none of the three raises, each reports
\* accessible False instead
get_memory_overview(db, down, user_context) ==
    LET short == _get_short_term_stats(db, down, user_context)
        mid == _get_mid_term_stats(db, down, user_context)
        long == get_memory_stats(db, down, user_context)
        recent == _get_recent_activity(db, down, user_context)
        total_items == Get(short.stats, "total_sessions", 0)
                       + Get(mid.stats, "total_summaries", 0)
                       + Get(long.stats, "total_documents", 0)
    IN  IF ~user_context.wellformed  \* user_context.username raises in the log line
        THEN Outcome(500, "Failed to get memory overview", db, <<>>)
        ELSE Outcome(200,
                     [user_info |-> [hierarchy_level |-> user_context.hierarchy_level,
                                     access_scope |-> _get_user_access_scope(user_context)],
                      overview |-> [total_memory_items |-> total_items,
                                    accessible_tiers |-> _get_accessible_tiers(user_context)],
                      tier_breakdown |-> [short_term |-> short.stats,
                                          mid_term |-> mid.stats,
                                          long_term |-> long.stats],
                      recent_activity |-> recent.activity,
                      recommendations |->
                          _generate_recommendations(user_context, short.stats,
                                                    mid.stats, long.stats)],
                     db, short.trace \o mid.trace \o long.trace \o recent.trace)

(***************************************************************************)
(* The policy engine alone: check_memory_access applied to any principal.  *)
(***************************************************************************)
UserIds == {"u1", "u2"}
DepartmentIds == {"d1", "d2"}
ProjectLists == {<<>>, <<"p1">>, <<"p2", "p1">>}
Actions == {"read", "write", "delete"}

\* UserContext values, including hierarchy levels outside the matrix
AnyUserContext ==
    [user_id : UserIds, hierarchy_level : 0..6, department_id : {"d1", NULL},
     project_ids : ProjectLists, wellformed : BOOLEAN]

NoCall == [op |-> "none"]

EmptyStore ==
    /\ rbac_session_memory = <<>>
    /\ rbac_mid_term_memory = <<>>
    /\ rbac_long_term_memory = <<>>

InitRBAC == EmptyStore /\ last = NoCall

CheckAccess ==
    \E user_context \in AnyUserContext, memory_tier \in memory_tier_type, action \in Actions :
        /\ last' = [op |-> "check_memory_access", user_context |-> user_context,
                    memory_tier |-> memory_tier, action |-> action,
                    result |-> check_memory_access(user_context, memory_tier, action)]
        /\ UNCHANGED <<rbac_session_memory, rbac_mid_term_memory, rbac_long_term_memory>>

NextRBAC == CheckAccess

SpecRBAC == InitRBAC /\ [][NextRBAC]_vars

(***************************************************************************)
(* The system: any sequence of calls of the controllers by the principals  *)
(* of one organization, on one day (so every created_at is day 0).         *)
(***************************************************************************)
MaxRows == 2

UserContext(user_id, hierarchy_level, department_id, project_ids) ==
    [user_id |-> user_id, hierarchy_level |-> hierarchy_level,
     department_id |-> department_id, project_ids |-> project_ids, wellformed |-> TRUE]

\* One principal of each hierarchy level; the level-3 lead is on no project.
Principals ==
    { UserContext("ceo", 1, "d1", <<>>),
      UserContext("mgr", 2, "d1", <<"p1">>),
      UserContext("lead", 3, "d2", <<>>),
      UserContext("emp", 4, "d1", <<"p1">>),
      UserContext("intern", 5, "d2", <<>>) }

\* a user context whose attributes cannot be read
Malformed == [UserContext("bad", 5, NULL, <<>>) EXCEPT !.wellformed = FALSE]

Callers == Principals \cup {Malformed}

SessionInputs == { [messages |-> PyList(<< <<"alpha">> >>)], [messages |-> PyList(<<>>)] }

SummaryInputs ==
    { [summary_text |-> PyStr(<<"quarterly-notes">>), tags |-> <<"alpha">>], EmptyDict }

DocumentInputs ==
    { [content |-> PyStr(<<"release-checklist">>)],
      [content |-> PyStr(<<"alpha", "handbook">>)],
      [content |-> PyStr(<<"hi">>)],
      EmptyDict }

UpdateInputs ==
    { [content |-> PyStr(<<"release-checklist", "v2">>)], [title |-> PyStr(<<"retitled">>)] }

Queries == { <<"alpha">>, <<"zeta">>, <<>> }

Limits == {1, 2}

SearchLimits == {1, 3, 6}

MemoryIds == 1..MaxRows

DB == [short_term |-> rbac_session_memory, mid_term |-> rbac_mid_term_memory,
       long_term |-> rbac_long_term_memory, now |-> 0]

Rows(db) == Len(db.short_term) + Len(db.mid_term) + Len(db.long_term)

\* The status code of the response of an endpoint of api/memory.py, each of
\* the form `try: return await controller...; except Exception as e: raise
\* HTTPException(status_code=500, detail=str(e))`; the HTTPException of a
\* controller is an Exception
endpoint(out) == IF out.status = 200 THEN 200 ELSE 500

\* One call, made when the response to the call before it has been delivered:
\* the tables become what the call left, `last` records the call and its outcome
Call(op, user_context, args, down, out) ==
    /\ last.op = "none"
    /\ Rows(out.db) <= MaxRows
    /\ rbac_session_memory' = out.db.short_term
    /\ rbac_mid_term_memory' = out.db.mid_term
    /\ rbac_long_term_memory' = out.db.long_term
    /\ last' = [op |-> op, user_context |-> user_context, args |-> args, down |-> down,
                status |-> out.status, body |-> out.body, trace |-> out.trace,
                response |-> endpoint(out)]

Init == EmptyStore /\ last = NoCall

StoreSession ==
    \E u \in Callers, session_data \in SessionInputs :
        Call("store_session_memory", u, session_data, {},
             store_session_memory(DB, {}, u, session_data))

RetrieveSessions ==
    \E u \in Callers, limit \in Limits :
        Call("retrieve_sessions", u, limit, {}, retrieve_sessions(DB, {}, u, limit))

StoreSummary ==
    \E u \in Callers, summary_data \in SummaryInputs :
        Call("store_summary", u, summary_data, {}, store_summary(DB, {}, u, summary_data))

RetrieveSummaries ==
    \E u \in Callers, limit \in Limits :
        Call("retrieve_summaries", u, limit, {}, retrieve_summaries(DB, {}, u, EmptyDict, limit))

StoreDocument ==
    \E u \in Callers, document_data \in DocumentInputs :
        Call("store_document", u, document_data, {},
             store_document(DB, {}, u, document_data))

RetrieveDocuments ==
    \E u \in Callers, limit \in Limits :
        Call("retrieve_documents", u, limit, {}, retrieve_documents(DB, {}, u, EmptyDict, limit))

SemanticSearch ==
    \E u \in Callers, query \in Queries, limit \in Limits :
        Call("semantic_search", u, query, {}, semantic_search(DB, {}, u, query, limit))

GetDocumentById ==
    \E u \in Callers, memory_id \in MemoryIds :
        Call("get_document_by_id", u, memory_id, {}, get_document_by_id(DB, {}, u, memory_id))

UpdateDocument ==
    \E u \in Callers, memory_id \in MemoryIds, updates \in UpdateInputs :
        Call("update_document", u, memory_id, {}, update_document(DB, {}, u, memory_id, updates))

DeleteDocument ==
    \E u \in Callers, memory_id \in MemoryIds :
        Call("delete_document", u, memory_id, {}, delete_document(DB, {}, u, memory_id))

UniversalSearch ==
    \E u \in Callers, query \in Queries, limit \in SearchLimits :
        Call("universal_search", u, [query |-> query, limit |-> limit], {},
             universal_search(DB, {}, u, query, limit))

MigrateMemory ==
    \E u \in Callers, source_tier \in memory_tier_type, target_tier \in memory_tier_type,
       memory_id \in MemoryIds :
        Call("migrate_memory", u,
             [source_tier |-> source_tier, target_tier |-> target_tier,
              memory_id |-> memory_id], {},
             migrate_memory(DB, {}, u, source_tier, target_tier, memory_id))

\* the response is delivered to the caller
GetMemoryOverview ==
    \E u \in Callers :
        Call("get_memory_overview", u, EmptyDict, {}, get_memory_overview(DB, {}, u))

Respond ==
    /\ last.op # "none"
    /\ last' = NoCall
    /\ UNCHANGED <<rbac_session_memory, rbac_mid_term_memory, rbac_long_term_memory>>

Next ==
    \/ StoreSession
    \/ RetrieveSessions
    \/ StoreSummary
    \/ RetrieveSummaries
    \/ StoreDocument
    \/ RetrieveDocuments
    \/ SemanticSearch
    \/ GetDocumentById
    \/ UpdateDocument
    \/ DeleteDocument
    \/ UniversalSearch
    \/ MigrateMemory
    \/ GetMemoryOverview
    \/ Respond

Spec == Init /\ [][Next]_vars

(***************************************************************************)
(* Searches over stores that may be unavailable: during one call of        *)
(* universal_search every query of the tiers in `down` raises.             *)
(***************************************************************************)
DegradedSearch ==
    \E u \in Callers, query \in Queries, limit \in SearchLimits,
       down \in SUBSET memory_tier_type :
        Call("universal_search", u, [query |-> query, limit |-> limit], down,
             universal_search(DB, down, u, query, limit))

DegradedOverview ==
    \E u \in Callers, down \in SUBSET memory_tier_type :
        Call("get_memory_overview", u, EmptyDict, down, get_memory_overview(DB, down, u))

NextSearch ==
    \/ StoreSession
    \/ StoreSummary
    \/ StoreDocument
    \/ DegradedSearch
    \/ DegradedOverview
    \/ Respond

SpecSearch == Init /\ [][NextSearch]_vars

(***************************************************************************)
(* The scheduling of the three tier calls of universal_search and of       *)
(* get_memory_overview. `last` is the call in progress: task[t] is the     *)
(* state of the coroutine of tier t, created (a coroutine object that has  *)
(* not run), running, done or failed; a tier in `down` fails.              *)
(***************************************************************************)
\* search_tasks of universal_search, stats_tasks of get_memory_overview
search_tasks == <<"short_term", "mid_term", "long_term">>

Finished == {"done", "failed"}

InitTasks == EmptyStore /\ last = NoCall

\* universal_search up to the loop: the three coroutine objects are created
\* and listed; none of them has started
BeginUniversalSearch ==
    /\ last.op = "none"
    /\ \E down \in SUBSET memory_tier_type :
          last' = [op |-> "universal_search", down |-> down,
                   task |-> [t \in memory_tier_type |-> "created"],
                   next |-> 1, joined |-> FALSE]
    /\ UNCHANGED <<rbac_session_memory, rbac_mid_term_memory, rbac_long_term_memory>>

\* get_memory_overview up to asyncio.gather: the three coroutines are handed
\* to gather together, which schedules all of them
BeginOverview ==
    /\ last.op = "none"
    /\ \E down \in SUBSET memory_tier_type :
          last' = [op |-> "get_memory_overview", down |-> down,
                   task |-> [t \in memory_tier_type |-> "created"],
                   next |-> 0, joined |-> FALSE]
    /\ UNCHANGED <<rbac_session_memory, rbac_mid_term_memory, rbac_long_term_memory>>

\* The coroutine of tier t starts to run. In universal_search that is
\* `results = await task` of the loop, reached for one task at a time in the
\* order of search_tasks; with gather every scheduled coroutine may start.
StartTask(t) ==
    /\ last.op \in {"universal_search", "get_memory_overview"}
    /\ last.task[t] = "created"
    /\ last.op = "universal_search" => (last.next <= 3 /\ search_tasks[last.next] = t)
    /\ last' = [last EXCEPT !.task[t] = "running"]
    /\ UNCHANGED <<rbac_session_memory, rbac_mid_term_memory, rbac_long_term_memory>>

\* The call of tier t ends, in failure when its store is down. In
\* universal_search the loop then goes on to the next task, after a failure
\* (the except branch) as after a success.
FinishTask(t) ==
    /\ last.op \in {"universal_search", "get_memory_overview"}
    /\ last.task[t] = "running"
    /\ last' = [last EXCEPT !.task[t] = IF t \in last.down THEN "failed" ELSE "done",
                            !.next = IF last.op = "universal_search" THEN @ + 1 ELSE @]
    /\ UNCHANGED <<rbac_session_memory, rbac_mid_term_memory, rbac_long_term_memory>>

\* The results are merged: after the loop of universal_search, or when
\* gather has returned, which it does once every coroutine has ended
JoinTasks ==
    /\ last.op \in {"universal_search", "get_memory_overview"}
    /\ ~last.joined
    /\ IF last.op = "universal_search"
       THEN last.next = 4
       ELSE \A t \in memory_tier_type : last.task[t] \in Finished
    /\ last' = [last EXCEPT !.joined = TRUE]
    /\ UNCHANGED <<rbac_session_memory, rbac_mid_term_memory, rbac_long_term_memory>>

ReturnTasks ==
    /\ last.op \in {"universal_search", "get_memory_overview"}
    /\ last.joined
    /\ last' = NoCall
    /\ UNCHANGED <<rbac_session_memory, rbac_mid_term_memory, rbac_long_term_memory>>

NextTasks ==
    \/ BeginUniversalSearch
    \/ BeginOverview
    \/ \E t \in memory_tier_type : StartTask(t)
    \/ \E t \in memory_tier_type : FinishTask(t)
    \/ JoinTasks
    \/ ReturnTasks

SpecTasks == InitTasks /\ [][NextTasks]_vars

(***************************************************************************)
(* Properties                                                              *)
(***************************************************************************)
ReadOps ==
    {"retrieve_sessions", "retrieve_summaries", "retrieve_documents",
     "semantic_search", "get_document_by_id"}

TierOf(op) ==
    CASE op = "retrieve_sessions" -> "short_term"
      [] op = "retrieve_summaries" -> "mid_term"
      [] OTHER -> "long_term"

\* the id of one result of universal_search or semantic_search
ResultId(r) == IF "id" \in DOMAIN r THEN r.id ELSE r.memory_id

\* The records a call handed to its caller, as <<tier, id>>
Returned(call) ==
    IF call.op = "none" \/ call.status # 200 THEN {}
    ELSE CASE call.op = "retrieve_sessions" ->
                {<<"short_term", call.body[i].session_id>> : i \in DOMAIN call.body}
           [] call.op = "retrieve_summaries" ->
                {<<"mid_term", call.body[i].summary_id>> : i \in DOMAIN call.body}
           [] call.op \in {"retrieve_documents", "semantic_search"} ->
                {<<"long_term", call.body[i].memory_id>> : i \in DOMAIN call.body}
           [] call.op = "get_document_by_id" -> {<<"long_term", call.body.memory_id>>}
           [] call.op = "universal_search" ->
                {<<call.body.results[i].memory_tier, ResultId(call.body.results[i])>> :
                    i \in DOMAIN call.body.results}
           [] OTHER -> {}

\* the stored row a returned <<tier, id>> names, as [owner, project_id, department_id]
StoredRow(ref) ==
    CASE ref[1] = "short_term" ->
            [owner |-> rbac_session_memory[ref[2]].user_id,
             project_id |-> rbac_session_memory[ref[2]].project_id,
             department_id |-> rbac_session_memory[ref[2]].department_id]
      [] ref[1] = "mid_term" ->
            [owner |-> rbac_mid_term_memory[ref[2]].user_id,
             project_id |-> rbac_mid_term_memory[ref[2]].project_id,
             department_id |-> rbac_mid_term_memory[ref[2]].department_id]
      [] OTHER ->
            [owner |-> rbac_long_term_memory[ref[2]].created_by,
             project_id |-> rbac_long_term_memory[ref[2]].project_id,
             department_id |-> rbac_long_term_memory[ref[2]].department_id]

\* what a scope lets a principal see, in the words of the policy
WithinScope(scope, user_context, row) ==
    CASE scope = "own" -> row.owner = user_context.user_id
      [] scope = "project" -> row.project_id \in Range(user_context.project_ids)
      [] scope = "department" -> row.department_id = user_context.department_id
      [] scope = "organization" -> TRUE
      [] OTHER -> FALSE

\* C1 (state part): in the trace of every call, each query of a tier's table
\* comes after a check_memory_access of that tier that returned granted.
C1_QueriesAreAuthorized ==
    last.op # "none" =>
        \A i \in DOMAIN last.trace :
            last.trace[i][1] = "db" =>
                \E j \in 1..(i - 1) : last.trace[j] = <<"rbac", last.trace[i][2], TRUE>>

\* C1 (step part): a call by a principal of hierarchy level 5 leaves the
\* mid_term and long_term tables as they were and returns no record of them.
C1_InternTouchesShortTermOnly ==
    (last'.op # "none" /\ last'.user_context.hierarchy_level = 5) =>
        /\ rbac_mid_term_memory' = rbac_mid_term_memory
        /\ rbac_long_term_memory' = rbac_long_term_memory
        /\ \A ref \in Returned(last') : ref[1] = "short_term"

\* C1: no tier store is read or written in a call unless check_memory_access
\* granted that tier earlier in the same call; hence a level-5 principal never
\* creates, changes or is returned a mid_term or long_term record.
C1_AuthorizationFirst ==
    [] C1_QueriesAreAuthorized /\ [][C1_InternTouchesShortTermOnly]_vars

\* C1 witness: a migration that read one tier and wrote another, each after
\* its own grant.
C1_Witness ==
    /\ last.op = "migrate_memory"
    /\ last.status = 200
    /\ \E i, j \in DOMAIN last.trace :
          /\ last.trace[i] = <<"db", "short_term", TRUE>>
          /\ last.trace[j] = <<"db", "mid_term", TRUE>>

\* C2: every record a read returns lies within the scope the policy table
\* gives the principal's level for that tier (own: the principal's record;
\* project: of one of the principal's projects; department: of the
\* principal's department; organization: any).
C2_ReturnedWithinScope ==
    (last.op \in ReadOps /\ last.status = 200) =>
        \A ref \in Returned(last) :
            WithinScope(access_matrix[last.user_context.hierarchy_level][TierOf(last.op)],
                        last.user_context, StoredRow(ref))

\* C2 witness: the employee (project scope) is returned a session of a colleague
\* on the same project.
C2_Witness ==
    /\ last.op = "retrieve_sessions"
    /\ last.user_context.user_id = "emp"
    /\ \E ref \in Returned(last) : StoredRow(ref).owner = "mgr"

\* C3: for a principal of level 1..5, access is granted exactly when the
\* matrix holds a scope for (level, tier); a granted decision carries that
\* scope and the scope's filters; level 5 is denied long_term and mid_term,
\* and level 1 gets long_term with scope organization and no filters.
C3_DecisionFollowsMatrix ==
    (/\ last.op = "check_memory_access"
     /\ last.user_context.wellformed
     /\ last.user_context.hierarchy_level \in 1..5) =>
        LET u == last.user_context
            tier == last.memory_tier
            scope == access_matrix[u.hierarchy_level][tier]
            r == last.result
        IN  /\ r.granted <=> scope \in access_scope_type
            /\ r.granted =>
                  /\ r.scope = scope
                  /\ r.filters =
                        CASE scope = "own" -> [user_id |-> u.user_id]
                          [] scope = "project" -> [project_id__in |-> u.project_ids]
                          [] scope = "department" -> [department_id |-> u.department_id]
                          [] OTHER -> EmptyDict
            /\ (u.hierarchy_level = 5 /\ tier \in {"long_term", "mid_term"}) => ~r.granted
            /\ (u.hierarchy_level = 1 /\ tier = "long_term") =>
                  r.granted /\ r.scope = "organization" /\ r.filters = EmptyDict

\* C3 witness: the level-1 principal asked for long_term and was granted.
C3_Witness ==
    /\ last.op = "check_memory_access"
    /\ last.user_context.wellformed
    /\ last.user_context.hierarchy_level = 1
    /\ last.memory_tier = "long_term"
    /\ last.result.granted

\* C4 (as claimed): a level absent from the table and a no-access entry both
\* give granted = false, a reason, and empty filters under the key `filters`.
C4_DenialCarriesFilters ==
    (/\ last.op = "check_memory_access"
     /\ last.user_context.wellformed
     /\ \/ last.user_context.hierarchy_level \notin 1..5
        \/ access_matrix[last.user_context.hierarchy_level][last.memory_tier] = NULL) =>
        /\ ~last.result.granted
        /\ last.result.reason # ""
        /\ "filters" \in DOMAIN last.result
        /\ last.result.filters = EmptyDict

\* no access is narrowest, then own < project < department < organization
ScopeRank(decision) ==
    IF ~decision.granted THEN 0
    ELSE CASE decision.scope = "own" -> 1
           [] decision.scope = "project" -> 2
           [] decision.scope = "department" -> 3
           [] decision.scope = "organization" -> 4
           [] OTHER -> -1

\* C5: the scope a level is granted for a tier is never wider than the scope
\* any more senior level (a smaller number) is granted for it.
C5_ScopeMonotonicInLevel ==
    (/\ last.op = "check_memory_access"
     /\ last.user_context.wellformed
     /\ last.user_context.hierarchy_level \in 1..5) =>
        \A a \in 1..5 :
            a < last.user_context.hierarchy_level =>
                ScopeRank(check_memory_access(
                              [last.user_context EXCEPT !.hierarchy_level = a],
                              last.memory_tier, last.action))
                    >= ScopeRank(last.result)

\* C5 witness: level 4 on long_term, where the scope narrows to own.
C5_Witness ==
    /\ last.op = "check_memory_access"
    /\ last.user_context.wellformed
    /\ last.user_context.hierarchy_level = 4
    /\ last.memory_tier = "long_term"
    /\ last.result.granted
    /\ last.result.scope = "own"

\* the tiers for which the policy gives the principal the scope project
ProjectScoped(user_context) ==
    {tier \in memory_tier_type :
        /\ user_context.wellformed
        /\ user_context.hierarchy_level \in DOMAIN access_matrix
        /\ access_matrix[user_context.hierarchy_level][tier] = "project"}

\* C6: a principal on no project is returned no record of a tier for which
\* its scope is project, by any read or search, whatever the tables hold.
C6_NoProjectsNoRecords ==
    (last.op # "none" /\ last.user_context.project_ids = <<>>) =>
        \A ref \in Returned(last) : ref[1] \notin ProjectScoped(last.user_context)

\* C6 witness: the lead, on no project, reads the sessions while the table
\* holds a session, the lead's own, and gets an empty list.
C6_Witness ==
    /\ last.op = "retrieve_sessions"
    /\ last.user_context.user_id = "lead"
    /\ last.status = 200
    /\ last.body = <<>>
    /\ \E i \in DOMAIN rbac_session_memory : rbac_session_memory[i].user_id = "lead"

\* C7 (as claimed): a call whose authorization raised an unexpected error (the
\* principal is malformed) ends as an internal error, never as a denial.
C7_AuthorizationErrorIsInternal ==
    (last.op \notin {"none", "check_memory_access"} /\ ~last.user_context.wellformed) =>
        last.status = 500

\* the tiers of the results of a search
ResultTiers(call) == {ref[1] : ref \in Returned(call)}

\* C8 (as claimed): a search by a principal with read access to every tier,
\* during which exactly one tier's store fails, succeeds, lists all three
\* tiers as searched, reports exactly one error, naming the failed tier, and
\* returns results of the other two tiers only.
C8_OneFailureOneError ==
    (/\ last.op = "universal_search"
     /\ last.user_context.wellformed
     /\ last.user_context.hierarchy_level \in 1..4
     /\ Cardinality(last.down) = 1) =>
        /\ last.status = 200
        /\ Range(last.body.tiers_searched) = memory_tier_type
        /\ Len(last.body.search_errors) = 1
        /\ last.body.search_errors[1].tier_name \in last.down
        /\ ResultTiers(last) \cap last.down = {}

\* C9 (as claimed): a search by a level-5 principal during which no store
\* fails reports no search error, and returns no result of a denied tier.
C9_DenialIsNotAnError ==
    (/\ last.op = "universal_search"
     /\ last.user_context.wellformed
     /\ last.user_context.hierarchy_level = 5
     /\ last.down = {}) =>
        /\ last.status = 200
        /\ last.body.search_errors = <<>>
        /\ ResultTiers(last) \subseteq {"short_term"}

\* C10 (as claimed): a search fails exactly when its query is empty or all
\* three tiers fail.
C10_FailsExactlyWhenInvalidOrAllFail ==
    (last.op = "universal_search" /\ last.user_context.wellformed) =>
        (last.status # 200 <=> (last.args.query = <<>> \/ last.down = memory_tier_type))

\* the candidates of the three tiers in the order universal_search merges them
MergedCandidates(call) ==
    LET u == call.user_context
        query == call.args.query
        each == call.args.limit \div 3
        long == semantic_search(DB, call.down, u, query, each)
    IN  Tagged(_search_short_term(DB, call.down, u, query, each).results, "short_term", query)
        \o Tagged(_search_mid_term(DB, call.down, u, query, each).results, "mid_term", query)
        \o (IF long.status = 200 THEN Tagged(long.body, "long_term", query) ELSE <<>>)

\* the place of candidate i in the descending order that keeps ties in place
PlaceOf(scored, i) ==
    1 + Cardinality({j \in DOMAIN scored :
                        \/ scored[j].unified_score > scored[i].unified_score
                        \/ /\ scored[j].unified_score = scored[i].unified_score
                           /\ j < i})

\* C11: the results of a search are the first `limit` of the merged candidates
\* in descending unified_score with equal scores in merged order; so they are
\* at most `limit` and non-increasing in unified_score.
C11_ResultsAreStableTopLimit ==
    (last.op = "universal_search" /\ last.status = 200) =>
        LET cands == MergedCandidates(last)
            scored == [i \in DOMAIN cands |-> WithScore(cands[i], DB.now)]
            expected == [k \in DOMAIN scored |->
                            scored[CHOOSE i \in DOMAIN scored : PlaceOf(scored, i) = k]]
            results == last.body.results
            n == IF Len(expected) < last.args.limit THEN Len(expected) ELSE last.args.limit
        IN  /\ Len(results) <= last.args.limit
            /\ \A i, j \in DOMAIN results :
                  i < j => results[i].unified_score >= results[j].unified_score
            /\ results = SubSeq(expected, 1, n)
            /\ last.body.total_results = Len(results)

\* C11 witness: a search whose ranking moved a long_term or mid_term result
\* ahead of a short_term one that was merged before it.
C11_Witness ==
    /\ last.op = "universal_search"
    /\ last.status = 200
    /\ Len(last.body.results) = 2
    /\ last.body.results[1].memory_tier # "short_term"
    /\ last.body.results[2].memory_tier = "short_term"

\* a universal_search or get_memory_overview is in progress
Orchestrating == last.op \in {"universal_search", "get_memory_overview"} /\ "task" \in DOMAIN last

\* C12, concurrency: while a tier call listed earlier is running, a call
\* listed later that has not started can start.
C12_CallsInFlightTogether ==
    Orchestrating =>
        \A i, j \in DOMAIN search_tasks :
            (/\ i < j
             /\ last.task[search_tasks[i]] = "running"
             /\ last.task[search_tasks[j]] = "created") => ENABLED StartTask(search_tasks[j])

\* C12, join and no cancellation: the results are merged only when each of
\* the three calls has run to its end, the siblings of a failed call included.
C12_JoinedBeforeMerge ==
    (Orchestrating /\ last.joined) => \A t \in memory_tier_type : last.task[t] \in Finished

\* C12 (as claimed): in universal_search and in get_memory_overview the three
\* tier calls are in flight concurrently, all are joined before the results
\* are merged, and the failure of one never cancels or skips a sibling.
C12_ConcurrentJoinedUncancelled ==
    C12_CallsInFlightTogether /\ C12_JoinedBeforeMerge

\* the rows of a tier, as <<tier, id>>, that exist and are not archived
LiveRows(tier) ==
    CASE tier = "short_term" -> {<<tier, i>> : i \in DOMAIN rbac_session_memory}
      [] tier = "mid_term" -> {<<tier, i>> : i \in DOMAIN rbac_mid_term_memory}
      [] OTHER -> {<<tier, i>> : i \in {j \in DOMAIN rbac_long_term_memory :
                                           ~rbac_long_term_memory[j].is_archived}}

\* the number of live rows of a tier within the principal's scope for it
VisibleCount(user_context, tier) ==
    Cardinality({ref \in LiveRows(tier) :
                    WithinScope(access_matrix[user_context.hierarchy_level][tier],
                                user_context, StoredRow(ref))})

\* the key under which the statistics of a tier count its records
CountKey(tier) ==
    CASE tier = "short_term" -> "total_sessions"
      [] tier = "mid_term" -> "total_summaries"
      [] OTHER -> "total_documents"

\* C13: an overview asked by a principal of level 1..5 returns a structured
\* result whichever tiers fail or are denied: the entry of each such tier has
\* accessible = false, the entry of every other tier is accessible and counts
\* the records visible to the principal; so a level-5 principal still gets
\* the statistics of short_term.
C13_OverviewDegradesPerTier ==
    (/\ last.op = "get_memory_overview"
     /\ last.user_context.wellformed
     /\ last.user_context.hierarchy_level \in 1..5) =>
        /\ last.status = 200
        /\ \A tier \in memory_tier_type :
              LET entry == last.body.tier_breakdown[tier]
                  lost == \/ tier \in last.down
                          \/ access_matrix[last.user_context.hierarchy_level][tier] = NULL
              IN  IF lost
                  THEN entry.accessible = FALSE
                  ELSE /\ entry.accessible = TRUE
                       /\ entry[CountKey(tier)] = VisibleCount(last.user_context, tier)

\* C13 witness: the level-5 principal's overview while the mid_term store is
\* down: short_term counts the principal's session, the other two tiers are
\* not accessible.
C13_Witness ==
    /\ last.op = "get_memory_overview"
    /\ last.user_context.hierarchy_level = 5
    /\ last.user_context.wellformed
    /\ last.down = {"mid_term"}
    /\ last.status = 200
    /\ last.body.tier_breakdown.short_term.accessible = TRUE
    /\ last.body.tier_breakdown.short_term.total_sessions = 1
    /\ last.body.tier_breakdown.mid_term.accessible = FALSE
    /\ last.body.tier_breakdown.long_term.accessible = FALSE

\* the forward transitions
ForwardPairs ==
    {<<"short_term", "mid_term">>, <<"short_term", "long_term">>, <<"mid_term", "long_term">>}

\* the call made no query of any table
NoStoreAccess(call) == \A i \in DOMAIN call.trace : call.trace[i][1] # "db"

\* C14 (as claimed): a migration between two tiers that are not a forward
\* pair ends in a validation error without a query of any tier store.
C14_InvalidPairRejectedFirst ==
    (/\ last.op = "migrate_memory"
     /\ last.user_context.wellformed
     /\ <<last.args.source_tier, last.args.target_tier>> \notin ForwardPairs) =>
        /\ last.status = 400
        /\ NoStoreAccess(last)

\* the principal of a call can read record `id` of `tier`
CanSee(call, tier, id) ==
    /\ call.user_context.wellformed
    /\ call.user_context.hierarchy_level \in 1..5
    /\ <<tier, id>> \in LiveRows(tier)
    /\ WithinScope(access_matrix[call.user_context.hierarchy_level][tier],
                   call.user_context, StoredRow(<<tier, id>>))

\* the principal of a call is granted `tier`
HasAccess(call, tier) ==
    /\ call.user_context.wellformed
    /\ call.user_context.hierarchy_level \in 1..5
    /\ access_matrix[call.user_context.hierarchy_level][tier] # NULL

\* C15 (as claimed): the migration to long_term of a session the principal
\* can read, by a principal with long_term access, succeeds, its target_id
\* names a long_term document holding the words of the session's messages,
\* and the session is still in the short_term table.
C15_SessionMigratesToDocument ==
    (/\ last.op = "migrate_memory"
     /\ last.args.source_tier = "short_term"
     /\ last.args.target_tier = "long_term"
     /\ CanSee(last, "short_term", last.args.memory_id)
     /\ HasAccess(last, "long_term")) =>
        /\ last.status = 200
        /\ last.body.target_id \in DOMAIN rbac_long_term_memory
        /\ \A i \in DOMAIN MessageContents(rbac_session_memory[last.args.memory_id].messages) :
              IsSubstring(MessageContents(rbac_session_memory[last.args.memory_id].messages)[i],
                          rbac_long_term_memory[last.body.target_id].content)

\* C16 (step): a migrate_memory call leaves the table of its source tier as
\* it was.
C16_MigrateKeepsSourceStep ==
    (last'.op = "migrate_memory") =>
        /\ last'.args.source_tier = "short_term" => rbac_session_memory' = rbac_session_memory
        /\ last'.args.source_tier = "mid_term" => rbac_mid_term_memory' = rbac_mid_term_memory
        /\ last'.args.source_tier = "long_term" => rbac_long_term_memory' = rbac_long_term_memory

\* C16: no call of migrate_memory, successful or failed, deletes, modifies or
\* marks a record of the source tier: the source tier's table is the same
\* before and after the call.
C16_MigrateKeepsSource == [][C16_MigrateKeepsSourceStep]_vars

\* C16 witness: a successful migration of a session to mid_term, after which
\* the session is still in its table.
C16_Witness ==
    /\ last.op = "migrate_memory"
    /\ last.status = 200
    /\ last.args.source_tier = "short_term"
    /\ last.args.memory_id \in DOMAIN rbac_session_memory
    /\ rbac_mid_term_memory # <<>>

\* C17 (step, as claimed): a migrate_memory call that reports success has
\* appended one record to the table of the target tier, the records that were
\* there are as they were, and target_id is the id of the new record.
C17_SuccessAddsOneRecordStep ==
    (last'.op = "migrate_memory" /\ last'.status = 200 /\ last'.body.status = "success") =>
        /\ last'.args.target_tier = "mid_term" =>
              /\ rbac_mid_term_memory' # rbac_mid_term_memory
              /\ SubSeq(rbac_mid_term_memory', 1, Len(rbac_mid_term_memory') - 1)
                    = rbac_mid_term_memory
              /\ last'.body.target_id = Len(rbac_mid_term_memory')
        /\ last'.args.target_tier = "long_term" =>
              /\ rbac_long_term_memory' # rbac_long_term_memory
              /\ SubSeq(rbac_long_term_memory', 1, Len(rbac_long_term_memory') - 1)
                    = rbac_long_term_memory
              /\ last'.body.target_id = Len(rbac_long_term_memory')

\* C17 (as claimed): every migrate_memory call that reports success has added
\* exactly one new record to the target tier, and target_id identifies it;
\* also when the source record has been migrated before.
C17_SuccessAddsOneRecord == [][C17_SuccessAddsOneRecordStep]_vars

\* C18 (step): a migration over a forward pair by a principal of level 1..5
\* that cannot read the source record, or has no access to the target tier,
\* creates no record and ends in an error: 404 when only the source record is
\* missing or out of scope, 403 when only the target access is missing.
C18_MigrateFailuresStep ==
    (/\ last'.op = "migrate_memory"
     /\ last'.user_context.wellformed
     /\ last'.user_context.hierarchy_level \in 1..5
     /\ <<last'.args.source_tier, last'.args.target_tier>> \in ForwardPairs) =>
        LET visible == CanSee(last', last'.args.source_tier, last'.args.memory_id)
            writable == HasAccess(last', last'.args.target_tier)
        IN  /\ (~visible \/ ~writable) =>
                  /\ last'.status \in {403, 404}
                  /\ UNCHANGED <<rbac_session_memory, rbac_mid_term_memory,
                                 rbac_long_term_memory>>
            /\ (~visible /\ writable) => last'.status = 404
            /\ (visible /\ ~writable) => last'.status = 403

\* C18: migrate_memory over a valid tier pair ends in not-found when the
\* record is absent from the source tier or not visible to the principal,
\* and in access-denied when the principal has no write access to the target
\* tier; in both cases no record is created.
C18_MigrateFailures == [][C18_MigrateFailuresStep]_vars

\* C18 witness: the level-5 principal's migration of their own session to
\* mid_term was denied, and mid_term holds no record.
C18_Witness ==
    /\ last.op = "migrate_memory"
    /\ last.user_context.hierarchy_level = 5
    /\ last.user_context.wellformed
    /\ last.args.source_tier = "short_term"
    /\ last.args.target_tier = "mid_term"
    /\ CanSee(last, "short_term", last.args.memory_id)
    /\ last.status = 403
    /\ rbac_mid_term_memory = <<>>

LongTermByIdOps == {"get_document_by_id", "update_document", "delete_document"}

\* C19 (step, as claimed): for a principal with long_term access, a call
\* naming a document the principal cannot read (out of scope or archived)
\* ends as for an id that does not exist, in 404 with nothing changed; and
\* no response of store_document names a document the principal cannot read.
C19_UnreadableLooksAbsentStep ==
    /\ (/\ last'.op \in LongTermByIdOps
        /\ HasAccess(last', "long_term")
        /\ ~CanSee(last', "long_term", last'.args)) =>
            /\ last'.status = 404
            /\ last'.body = "Document not found or access denied"
            /\ UNCHANGED <<rbac_session_memory, rbac_mid_term_memory, rbac_long_term_memory>>
    /\ (/\ last'.op = "store_document"
        /\ HasAccess(last', "long_term")
        /\ last'.status = 200) =>
            \/ last'.body.memory_id \notin DOMAIN rbac_long_term_memory
            \/ CanSee(last', "long_term", last'.body.memory_id)

\* C19 (as claimed): the outcome of get_document_by_id, update_document,
\* delete_document and store_document is the same whether a document does not
\* exist or exists and cannot be read by the principal: no response reveals
\* the existence or the id of such a document.
C19_UnreadableLooksAbsent == [][C19_UnreadableLooksAbsentStep]_vars

\* C20 (as claimed): an access-denied, not-found or validation outcome of a
\* controller reaches the caller of the endpoint with its own status (403,
\* 404, 400), never as 500.
C20_TypedErrorsReachCaller ==
    (last.op # "none" /\ "response" \in DOMAIN last /\ last.status \in {400, 403, 404}) =>
        last.response = last.status

\* the long_term rows that are not archived
Unarchived(table) == {i \in DOMAIN table : ~table[i].is_archived}

\* C21 (step): over one call, no table loses a row, the rows of short_term and
\* mid_term stay as they were, a long_term row keeps its identity and an
\* archived row stays archived; a successful delete_document leaves the row in
\* the table, archived and otherwise as it was; a document that was archived
\* before the call is not returned by any read or search, cannot be updated or
\* archived again, and is not counted by the statistics of the overview.
C21_ArchiveOnlyStep ==
    /\ Len(rbac_session_memory') >= Len(rbac_session_memory)
    /\ SubSeq(rbac_session_memory', 1, Len(rbac_session_memory)) = rbac_session_memory
    /\ Len(rbac_mid_term_memory') >= Len(rbac_mid_term_memory)
    /\ SubSeq(rbac_mid_term_memory', 1, Len(rbac_mid_term_memory)) = rbac_mid_term_memory
    /\ Len(rbac_long_term_memory') >= Len(rbac_long_term_memory)
    /\ \A i \in DOMAIN rbac_long_term_memory :
          /\ rbac_long_term_memory'[i].memory_id = rbac_long_term_memory[i].memory_id
          /\ rbac_long_term_memory'[i].created_by = rbac_long_term_memory[i].created_by
          /\ rbac_long_term_memory[i].is_archived => rbac_long_term_memory'[i].is_archived
    /\ (last'.op = "delete_document" /\ last'.status = 200) =>
          /\ last'.args \in Unarchived(rbac_long_term_memory)
          /\ rbac_long_term_memory' =
                [rbac_long_term_memory EXCEPT ![last'.args].is_archived = TRUE]
    /\ (last'.op = "update_document" /\ last'.status = 200) =>
          last'.args \in Unarchived(rbac_long_term_memory)
    /\ \A ref \in Returned(last') :
          ref[1] = "long_term" => ref[2] \in Unarchived(rbac_long_term_memory)
    /\ (last'.op = "get_memory_overview" /\ last'.status = 200) =>
          Get(last'.body.tier_breakdown.long_term, "total_documents", 0)
              <= Cardinality(Unarchived(rbac_long_term_memory))

\* C21: delete_document never removes a long_term record, it only sets its
\* archived flag; from then on the record is never returned by
\* retrieve_documents, semantic_search or get_document_by_id nor counted by
\* get_memory_stats, and no operation removes a record of any tier.
C21_ArchiveOnly == [][C21_ArchiveOnlyStep]_vars

\* C21 witness: the chief executive, who sees every document, lists the
\* documents while an archived document is still in the table.
C21_Witness ==
    /\ last.op = "retrieve_documents"
    /\ last.status = 200
    /\ last.user_context.hierarchy_level = 1
    /\ \E i \in DOMAIN rbac_long_term_memory : rbac_long_term_memory[i].is_archived

(***************************************************************************)
(* Intelligent storage: POST /store routes a content mapping to the store  *)
(* of the tier _determine_memory_tier gives it; the tier stores can also   *)
(* be called directly.                                                     *)
(***************************************************************************)
IntelligentInputs ==
    { [messages |-> PyList(<< <<"alpha">> >>)],
      [messages |-> PyList(<<>>)],
      [messages |-> PyStr(<<"Meeting", "notes">>)],
      [content |-> PyStr(<<"policy", "handbook">>)],
      [content |-> PyStr(<<"Meeting", "notes">>)],
      [content |-> PyStr(<<"release-checklist">>)],
      [summary_text |-> PyStr(<<"Meeting", "notes">>)],
      [summary_text |-> PyStr(<<"policy", "handbook">>)],
      [memory_tier |-> "archive", messages |-> PyList(<< <<"alpha">> >>)],
      [memory_tier |-> "long_term", content |-> PyStr(<<"release-checklist">>)],
      [memory_tier |-> "long_term", content |-> PyStr(<<" ">>)],
      [memory_tier |-> "mid_term", summary_text |-> PyStr(<<>>)],
      EmptyDict }

StoreMemoryIntelligent ==
    \E u \in Callers, content \in IntelligentInputs :
        Call("store_memory_intelligent", u, content, {},
             store_memory_intelligent(DB, {}, u, content))

NextStore ==
    \/ StoreMemoryIntelligent
    \/ StoreSession
    \/ StoreSummary
    \/ StoreDocument
    \/ Respond

SpecStore == Init /\ [][NextStore]_vars

StoreOps ==
    {"store_memory_intelligent", "store_session_memory", "store_summary", "store_document"}

\* the keys of a content mapping that can carry its body
BodyKeys == {"content", "summary_text", "messages"}

\* a body that is absent, empty or only whitespace
EmptyBody(data, key) ==
    key \in DOMAIN data => Split(data[key].val) = <<>>

\* the input of a store call carries no content: no messages, an empty
\* summary text, an empty document content, or for POST /store no body at all
EmptyContent(call) ==
    CASE call.op = "store_session_memory" -> EmptyBody(call.args, "messages")
      [] call.op = "store_summary" -> EmptyBody(call.args, "summary_text")
      [] call.op = "store_document" -> EmptyBody(call.args, "content")
      [] OTHER -> \A key \in BodyKeys : EmptyBody(call.args, key)

UnknownTier(call) ==
    /\ call.op = "store_memory_intelligent"
    /\ "memory_tier" \in DOMAIN call.args
    /\ call.args.memory_tier \notin memory_tier_type

\* the policy refused the call
Denied(call) == \E i \in DOMAIN call.trace : call.trace[i][1] = "rbac" /\ ~call.trace[i][3]

\* C22 (step): a store call that does not succeed leaves the three tables as
\* they were; a store call whose input is empty or names an unknown tier does
\* not succeed, and its error is the validation error (400) unless the policy
\* refused the principal first or the principal's attributes cannot be read.
C22_InvalidStoreRejectedStep ==
    (last'.op \in StoreOps) =>
        /\ last'.status # 200 =>
              UNCHANGED <<rbac_session_memory, rbac_mid_term_memory, rbac_long_term_memory>>
        /\ (EmptyContent(last') \/ UnknownTier(last')) =>
              /\ last'.status # 200
              /\ (last'.user_context.wellformed /\ ~Denied(last')) => last'.status = 400

\* C22: store_memory_intelligent and the tier stores reject empty content (no
\* messages, empty summary text, empty document content) and an unknown tier
\* name with a validation error, and a rejected store changes no record of
\* any tier.
C22_InvalidStoreRejected == [][C22_InvalidStoreRejectedStep]_vars

\* C22 witness: content with an unknown tier name is rejected with 400 while
\* records are stored, and they stay.
C22_Witness ==
    /\ UnknownTier(last)
    /\ last.status = 400
    /\ Rows(DB) > 0

(***************************************************************************)
(* Classification: _determine_memory_tier applied to one content mapping.  *)
(***************************************************************************)
\* a text of n words without an indicator
Fill(n) == [i \in 1..n |-> "word"]

Texts ==
    { <<>>, <<"hi">>, <<"Meeting", "notes">>, <<"policy", "summary">>,
      <<"policy", "handbook">>, <<"guidelines">>, <<"key", "points">>,
      <<"key", " ", "points">>, Fill(49), Fill(50), Fill(499), Fill(500),
      Fill(49) \o <<"summary:">>, Fill(500) \o <<"meeting">>, Fill(60) \o <<"policy">> }

Bodies ==
    {PyStr(text) : text \in Texts}
        \cup {PyList(<<>>), PyList(<< <<"policy">> >>), PyNone}

\* the memory_tier hints of a request, NULL for none
Hints == {NULL, "short_term", "mid_term", "long_term", "archive"}

\* content mappings with the body under no key, under one key, or with two
\* bodies under two keys
Unhinted ==
    {EmptyDict}
        \cup {[k \in {key} |-> body] : key \in BodyKeys, body \in Bodies}
        \cup {[content |-> PyStr(text), messages |-> PyList(<< <<"policy">> >>)] :
                text \in {<<"hi">>, <<"policy", "handbook">>}}
        \cup {[summary_text |-> PyStr(<<"Meeting", "notes">>), messages |-> body] :
                body \in {PyList(<<>>), PyStr(<<"policy">>)}}
        \cup {[content |-> PyStr(Fill(50)), summary_text |-> PyStr(<<"policy">>)]}

WithHint(content, hint) ==
    IF hint = NULL THEN content
    ELSE [k \in DOMAIN content \cup {"memory_tier"} |->
            IF k = "memory_tier" THEN hint ELSE content[k]]

Contents == {WithHint(content, hint) : content \in Unhinted, hint \in Hints}

InitClassify ==
    /\ EmptyStore
    /\ \E content \in Contents : last = [op |-> "content", content |-> content]

\* the content is classified, and classified once more
Classify ==
    /\ last.op = "content"
    /\ last' = [op |-> "_determine_memory_tier", content |-> last.content,
                tier |-> _determine_memory_tier(last.content),
                again |-> _determine_memory_tier(last.content)]
    /\ UNCHANGED <<rbac_session_memory, rbac_mid_term_memory, rbac_long_term_memory>>

NextClassify == Classify

SpecClassify == InitClassify /\ [][NextClassify]_vars

Classified == last.op = "_determine_memory_tier"

\* C23 (as claimed): _determine_memory_tier returns one of short_term,
\* mid_term, long_term for every content mapping, with or without a
\* memory_tier hint, and the same tier when applied again.
C23_ClassifyIsTotal ==
    Classified => (last.tier \in memory_tier_type /\ last.again = last.tier)

\* the body rule 2 onwards looks at: the value under content, else under
\* summary_text, else under messages, else the empty text
BodyOf(content) ==
    IF "content" \in DOMAIN content THEN content["content"]
    ELSE IF "summary_text" \in DOMAIN content THEN content["summary_text"]
    ELSE IF "messages" \in DOMAIN content THEN content["messages"]
    ELSE PyStr(<<>>)

HasSummaryCue(body) ==
    /\ body.type = "str"
    /\ \E indicator \in summary_indicators : HasIndicator(indicator, Lower(body.val))

HasDocumentCue(body) ==
    /\ body.type = "str"
    /\ \E indicator \in document_indicators : HasIndicator(indicator, Lower(body.val))

\* the number of the first rule that matches the content
FirstRule(content) ==
    LET body == BodyOf(content)
    IN  CASE "memory_tier" \in DOMAIN content -> 1
          [] OTHER ->
             CASE body.type = "list" -> 2
               [] OTHER ->
                  CASE HasSummaryCue(body) -> 3
                    [] OTHER ->
                       CASE HasDocumentCue(body) -> 4
                         [] OTHER -> IF body.type = "str" THEN 5 ELSE 6

\* C24: the tier is that of the first rule that matches, in the order: hint;
\* list of messages -> short_term; summary indicator (case-insensitive) ->
\* mid_term; document indicator -> long_term; word count < 50 -> short_term,
\* < 500 -> mid_term, else long_term; a body that is no text -> short_term.
C24_FirstMatchingRule ==
    Classified =>
        LET rule == FirstRule(last.content)
            words == Len(Split(BodyOf(last.content).val))
        IN  /\ rule = 1 => last.tier = last.content.memory_tier
            /\ rule = 2 => last.tier = "short_term"
            /\ rule = 3 => last.tier = "mid_term"
            /\ rule = 4 => last.tier = "long_term"
            /\ rule = 5 =>
                  /\ words < 50 => last.tier = "short_term"
                  /\ (words >= 50 /\ words < 500) => last.tier = "mid_term"
                  /\ words >= 500 => last.tier = "long_term"
            /\ rule = 6 => last.tier = "short_term"

\* C24 witness: a text of more than 500 words with a summary indicator and no
\* hint is classified by the indicator, not by its length.
C24_Witness ==
    /\ Classified
    /\ FirstRule(last.content) = 3
    /\ Len(Split(BodyOf(last.content).val)) > 500
    /\ last.tier = "mid_term"

(***************************************************************************)
(* Ranking: _rank_cross_tier_results applied to candidates of any age.     *)
(* Times are in days; datetime.now() is Today.                             *)
(***************************************************************************)
Today == 400

\* creation times: more than a year ago, a year ago, within the year, today,
\* and ahead of the clock
CreationTimes == {Today - 366, Today - 365, Today - 364, Today - 1, Today, Today + 1, Today + 30}

Candidates ==
    [memory_tier : memory_tier_type, created_at : CreationTimes]

CandidateLists ==
    {<<c>> : c \in Candidates} \cup {<<c, d>> : c \in Candidates, d \in Candidates}

InitRank ==
    /\ EmptyStore
    /\ \E all_results \in CandidateLists :
          last = [op |-> "candidates", all_results |-> all_results]

Rank ==
    /\ last.op = "candidates"
    /\ last' = [op |-> "_rank_cross_tier_results", all_results |-> last.all_results,
                ranked |-> _rank_cross_tier_results(last.all_results, Today)]
    /\ UNCHANGED <<rbac_session_memory, rbac_mid_term_memory, rbac_long_term_memory>>

NextRank == Rank

SpecRank == InitRank /\ [][NextRank]_vars

\* what the recency factor added to the score of a ranked candidate that has
\* neither similarity nor word count: 0.3 * factor, in units of 1/36500, so
\* that a factor of 1 is 10950
RecencyShare(result) == result.unified_score - tier_bonus(result.memory_tier)

\* C25 (as claimed): the recency factor of every candidate is in [0, 1]; it is
\* 0 for a record 365 days old or older and exactly 1 for a record whose
\* creation time is in the future.
C25_RecencyWithinUnit ==
    (last.op = "_rank_cross_tier_results") =>
        \A i \in DOMAIN last.ranked :
            LET result == last.ranked[i]
            IN  /\ RecencyShare(result) >= 0
                /\ RecencyShare(result) <= 10950
                /\ Today - result.created_at >= 365 => RecencyShare(result) = 0
                /\ result.created_at > Today => RecencyShare(result) = 10950

\* C26 (step, as claimed): a successful update_document returns a version
\* greater than the version the document had before the call, and no call
\* lowers the version of a document.
C26_VersionGrowsStep ==
    /\ (last'.op = "update_document" /\ last'.status = 200) =>
          last'.body.version > rbac_long_term_memory[last'.args].version
    /\ \A i \in DOMAIN rbac_long_term_memory :
          rbac_long_term_memory'[i].version >= rbac_long_term_memory[i].version

\* C26: every successful update_document returns a version strictly greater
\* than the document's version before the call, whichever fields were updated,
\* and a document's version never decreases.
C26_VersionGrows == [][C26_VersionGrowsStep]_vars

\* the priority of a tier in a tie: long_term > mid_term > short_term
TierPriority(memory_tier) ==
    CASE memory_tier = "long_term" -> 3
      [] memory_tier = "mid_term" -> 2
      [] OTHER -> 1

\* C27 (as claimed): the most_active_tier of an overview is a tier whose
\* count of recent records is maximal, and of the tiers that share the
\* maximum it is the highest in the order long_term > mid_term > short_term.
C27_MostActiveTierTieBreak ==
    (/\ last.op = "get_memory_overview"
     /\ last.status = 200
     /\ "most_active_tier" \in DOMAIN last.body.recent_activity) =>
        LET counts == last.body.recent_activity.last_7_days
            most_active_tier == last.body.recent_activity.most_active_tier
        IN  \A memory_tier \in memory_tier_type :
                /\ counts[memory_tier] <= counts[most_active_tier]
                /\ counts[memory_tier] = counts[most_active_tier] =>
                      TierPriority(memory_tier) <= TierPriority(most_active_tier)

(***************************************************************************)
(* Editing documents: principals of levels 1 to 4, two of them of level 3, *)
(* one on the project of the manager and the employee, store, update and   *)
(* archive documents.                                                      *)
(***************************************************************************)
Editors ==
    { UserContext("ceo", 1, "d1", <<>>),
      UserContext("mgr", 2, "d1", <<"p1">>),
      UserContext("lead1", 3, "d1", <<"p1">>),
      UserContext("lead", 3, "d2", <<>>),
      UserContext("emp", 4, "d1", <<"p1">>) }

EditorStoreDocument ==
    \E u \in Editors, document_data \in DocumentInputs :
        Call("store_document", u, document_data, {},
             store_document(DB, {}, u, document_data))

EditorUpdateDocument ==
    \E u \in Editors, memory_id \in MemoryIds, updates \in UpdateInputs :
        Call("update_document", u, memory_id, {}, update_document(DB, {}, u, memory_id, updates))

EditorDeleteDocument ==
    \E u \in Editors, memory_id \in MemoryIds :
        Call("delete_document", u, memory_id, {}, delete_document(DB, {}, u, memory_id))

NextEdit ==
    \/ EditorStoreDocument
    \/ EditorUpdateDocument
    \/ EditorDeleteDocument
    \/ Respond

SpecEdit == Init /\ [][NextEdit]_vars

\* the document is visible to the principal under the scope the policy gives
\* the principal's level for long_term
VisibleUnderOwnScope(user_context, doc) ==
    /\ user_context.wellformed
    /\ user_context.hierarchy_level \in DOMAIN access_matrix
    /\ WithinScope(access_matrix[user_context.hierarchy_level]["long_term"], user_context,
                   [owner |-> doc.created_by, project_id |-> doc.project_id,
                    department_id |-> doc.department_id])

\* C28 (step): a call that changes a stored document, its archived flag
\* included, is an update_document or a delete_document made by the creator
\* of the document or by a principal of level 1 or 2 to whom the document is
\* visible under the principal's own scope.
C28_OnlyOwnerOrManagerEditsStep ==
    \A i \in DOMAIN rbac_long_term_memory :
        rbac_long_term_memory'[i] # rbac_long_term_memory[i] =>
            /\ last'.op \in {"update_document", "delete_document"}
            /\ last'.args = i
            /\ \/ rbac_long_term_memory[i].created_by = last'.user_context.user_id
               \/ /\ last'.user_context.hierarchy_level \in {1, 2}
                  /\ VisibleUnderOwnScope(last'.user_context, rbac_long_term_memory[i])

\* C28: over any sequence of operations a long_term document is modified or
\* archived only by its creator or by a principal of level 1 or 2 to whom it
\* is visible under their own scope; a principal of level 3, 4 or 5 never
\* changes or archives a document created by another principal.
C28_OnlyOwnerOrManagerEdits == [][C28_OnlyOwnerOrManagerEditsStep]_vars

\* C28 witness: a principal of level 3 who can read a document created by
\* another principal is refused its update or its archiving.
C28_Witness ==
    /\ last.op \in {"update_document", "delete_document"}
    /\ last.status = 403
    /\ last.user_context.hierarchy_level = 3
    /\ last.args \in DOMAIN rbac_long_term_memory
    /\ rbac_long_term_memory[last.args].created_by # last.user_context.user_id
    /\ VisibleUnderOwnScope(last.user_context, rbac_long_term_memory[last.args])

\* the table of a tier, after the step
TableAfter(memory_tier) ==
    CASE memory_tier = "short_term" -> rbac_session_memory'
      [] memory_tier = "mid_term" -> rbac_mid_term_memory'
      [] OTHER -> rbac_long_term_memory'

TableBefore(memory_tier) ==
    CASE memory_tier = "short_term" -> rbac_session_memory
      [] memory_tier = "mid_term" -> rbac_mid_term_memory
      [] OTHER -> rbac_long_term_memory

\* C29 (step, as claimed): store_memory_intelligent, called by a principal
\* with write access to the tier T that _determine_memory_tier gives the
\* content, with a non-empty body under content, summary_text or messages,
\* succeeds, reports T and has added one record to the table of T.
C29_IntelligentStoreSucceedsStep ==
    LET content == last'.args
        T == _determine_memory_tier(content)
    IN  (/\ last'.op = "store_memory_intelligent"
         /\ last'.user_context.wellformed
         /\ \E key \in BodyKeys : ~EmptyBody(content, key)
         /\ T \in memory_tier_type
         /\ check_memory_access(last'.user_context, T, "write").granted) =>
            /\ last'.status = 200
            /\ last'.body.memory_tier = T
            /\ Len(TableAfter(T)) = Len(TableBefore(T)) + 1

\* C29: for a principal with write access to tier T, store_memory_intelligent
\* with non-empty content classified to T succeeds and creates a record in T,
\* whichever of the keys content, summary_text or messages carries the body,
\* and the tier reported is the tier that holds the new record.
C29_IntelligentStoreSucceeds == [][C29_IntelligentStoreSucceedsStep]_vars

\* a session the caller of a search can read holds the query in its messages
VisibleMatchingSession(call) ==
    \E i \in DOMAIN rbac_session_memory :
        /\ HasAccess(call, "short_term")
        /\ CanSee(call, "short_term", i)
        /\ IsSubstring(Lower(call.args.query),
                       Lower(Join(MessageContents(rbac_session_memory[i].messages))))

\* C30 (as claimed): for every limit >= 1, universal_search returns at least
\* one result when a tier the principal can read (here short_term) holds a
\* visible record that matches the query.
C30_QuotaKeepsACandidate ==
    (/\ last.op = "universal_search"
     /\ last.status = 200
     /\ last.args.limit >= 1
     /\ VisibleMatchingSession(last)) =>
        last.body.results # <<>>

====
